---- MODULE Spec2Model ----
(***************************************************************************)
(* Model of the RabbitMQ transport of polymatx/goframe (package rabbit):   *)
(* the slot ring built by initializeConnection, Connection.Publish with    *)
(* its per-slot lock and WaitGroup, the publishConfirm listener, and the   *)
(* Connection.Consume loop.  The broker and the amqp client library are    *)
(* the environment: they confirm sends, close channels, deliver messages.  *)
(***************************************************************************)
EXTENDS Integers, Sequences, FiniteSets, TLC

\* ---- bounds ----
NumPublishers == 2
MaxPublishNum == 2
MaxCalls == 2
NumMsgs == 2
MaxFails == 2
MaxTryDur == 3
LongWindow == 500
MaxFnDur == 1
MaxNotify == 3
NumErrs == 2
MaxHealthCalls == 3
MaxBrokers == 2
NumInitCalls == 2
MaxConnNum == 2
MaxClose == 2
MaxLifeCalls == 2
NumResolvers == 2
MaxResolves == 3
NumClients == 2
NumConns == 2
MaxBroadcasts == 2
MaxDrains == 1

\* ---- program constants ----
ConfirmLenDefault == 100
BackoffCapSec == 30
NotifyCloseCap == 10
InitWindowSec == 30
SendBufCap == 256
BroadcastCap == 256

Pubs == 1..NumPublishers
Brokers == 1..MaxBrokers
InitCallers == 1..NumInitCalls
\* the broker Publish and Consume calls name
Target == 1
Msgs == 1..NumMsgs
None == 0

\* websocket connections
Conns == 1..NumConns

\* goroutines calling Container.Resolve
Resolvers == 1..NumResolvers
\* the names of the README example and of each other way to bind a name
Database == 1
UserService == 2
Report == 3
Config == 4
Missing == 5
Names == {Database, UserService, Report, Config, Missing}
\* how the set-up bound each name: Singleton (container.go:53), BindFactory
\* (40), Bind (27), or not at all
Kind == [n \in Names |->
           CASE n \in {Database, UserService} -> "singleton"
             [] n = Report -> "factory"
             [] n = Config -> "service"
             [] OTHER -> "unbound"]
\* the name a factory resolves on the container it is given, None if none
Dep == [n \in Names |-> IF n \in {UserService, Report} THEN Database ELSE None]
\* the value Bind stored under a name; instances made by factories are
\* numbered 1, 2, ...
ServiceValue(n) == 0 - n
NoResult == [name |-> None, val |-> 0, err |-> "none", via |-> "none"]

VARIABLES
  \* package state (init.go 22-31) and chnlLock fields (init.go 49-55)
  publishNum,   \* size of the slot ring rng[name]
  rngCur,       \* the element rng[name] currently points at
  rngLock,      \* holder of rngLock, None when free
  slotLock,     \* chnlLock.lock : slot -> holder
  wg,           \* chnlLock.wg   : slot -> counter
  rtrn,         \* chnlLock.rtrn : slot -> buffered confirmations
  rtrnClosed,   \* the rtrn channel has been closed by the amqp channel
  closed,       \* chnlLock.closed
  chnOpen,      \* chnlLock.chn is open at the broker
  published,    \* per channel publish sequence number (delivery tags)
  pending,      \* broker side: delivery tags sent and not yet confirmed
  listener,     \* publishConfirm goroutine of the slot
  \* Publish calls
  pc, r, cl, myTag, calls, ret, conf,
  \* history
  selHist, consumed,
  \* Consume call and the broker queue it reads
  ctxDone, cpc, cret, setupOK, subs, ready, msgs, msgsClosed, unacked,
  cur, hres, fails, recv, res, sigs,
  \* a call of safe.Try (part_010:282-327)
  tMax, tnow, tstart, attempt, terr, tpc, tret, invoked, lastOut, lastSleep,
  \* notifyClose and calls of ignite.Health (init.go 33-47)
  notifyClose, connErrored, hret, healthCalls, reported,
  \* package state written by RegisterRabbit, Initialize and Close
  registered,    \* rabbitConnExpected
  onceState,     \* sync.Once: "new", "running", "done"
  snapshot,      \* the slice the body of Initialize ranges over
  idx,           \* next index of that range
  ipc,           \* position of each Initialize call: "idle", "body" in the
                 \* range, "conn" inside initializeConnection, "returned"
  connNum,       \* rabbit_connection_num
  connFilled,    \* connRng[b]: -1 when absent, else number of dialled elements
  connCur,       \* connRng[b]: element it points at, counted from 0
  rngFilled,     \* rng[b]: -1 when absent, else number of filled slots
  killSet,       \* killCancel # nil
  killCancelled, \* the kill context is cancelled
  healthReg,     \* healthz.Register has run
  initFailed,    \* the body logged a failure and returned early
  crashed,       \* an unrecovered panic ended the process
  consAcquired,  \* a Consume call got its connection (part_008:231-233)
  \* history
  dialed, bodyRuns, connTries, closeCalls,
  \* a container.Container (container.go 10-15) and its Resolve calls
  cmuW,        \* mu: the goroutine holding the write lock, None when free
  cmuR,        \* mu: number of read locks held
  cservices,   \* keys of services
  cfactories,  \* keys of factories
  csingletons, \* keys of singletons
  csingle,     \* singletons[name]: 0 for nil, else the instance
  ctouched,    \* history: names whose binding was changed after the set-up
  cadmin,      \* history: Bind, BindFactory, Singleton, Remove, Clear calls
  cadmErr,     \* what the last of these calls returned
  rstack,      \* per goroutine: the Resolve frames it is in, outermost first
  rres,        \* per goroutine: what its last outermost Resolve returned
  rcalls,      \* per goroutine: outermost Resolve calls started
  fCalls,      \* per name: invocations of its factory
  fFails,      \* per name: invocations that returned an error
  made,        \* instances constructed so far
  \* a call of mqtt.Initialize (part_019:48-88); elasticsearch.Initialize
  \* (part_007:49-89) has the same shape
  mpc,         \* position of the call
  initErr,     \* its local variable initErr
  mret,        \* what it returned
  mclients,    \* number of registered clients stored in the clients map
  \* a websocket Hub (websocket.go 60-67) and its Connections (52-57)
  hconns,      \* keys of Hub.connections
  hlevel,      \* per connection: messages buffered in its send channel
  closedBy,    \* per connection: which case of Run closed send, or "none"
  closes,      \* per connection: close(send) calls made
  cst,         \* per connection: where Upgrade / readPump stands
  wpump,       \* per connection: its writePump goroutine
  drained,     \* messages the writePumps have taken so far
  hpc,         \* Hub.Run: "idle" at the select, "bcast" inside the range
  todo,        \* connections the range of the broadcast case has yet to visit
  bcastLen,    \* messages buffered in Hub.broadcast
  bissued,     \* messages handed to broadcast or Send so far
  hfatal,      \* a panic ended the process: "none", "hub" or "sender"
  \* connRngLock (init.go 24) as a lock of its own
  connRngLock, \* the Initialize call holding it for writing, None when free
  connLockIdx  \* idx when that call took it

pubVars == <<publishNum, rngCur, rngLock, slotLock, wg, rtrn, rtrnClosed,
             closed, chnOpen, published, pending, listener, pc, r, cl,
             myTag, calls, ret, conf, selHist, consumed>>
consVars == <<ctxDone, cpc, cret, setupOK, subs, ready, msgs, msgsClosed,
              unacked, cur, hres, fails, recv, res, sigs>>
tryVars == <<tMax, tnow, tstart, attempt, terr, tpc, tret, invoked, lastOut,
             lastSleep>>
healthVars == <<notifyClose, connErrored, hret, healthCalls, reported>>
lifeVars == <<registered, onceState, snapshot, idx, ipc, connNum, connFilled,
              connCur, rngFilled, killSet, killCancelled, healthReg,
              initFailed, crashed, consAcquired, dialed, bodyRuns, connTries,
              closeCalls>>
ctrMaps == <<cservices, cfactories, csingletons, csingle>>
ctrAdmin == <<ctouched, cadmin, cadmErr>>
ctrVars == <<cmuW, cmuR, ctrMaps, ctrAdmin, rstack, rres, rcalls, fCalls,
             fFails, made>>
mqttVars == <<mpc, initErr, mret, mclients>>
hubVars == <<hconns, hlevel, closedBy, closes, cst, wpump, drained, hpc, todo,
             bcastLen, bissued, hfatal>>
lockVars == <<connRngLock, connLockIdx>>
moreVars == <<ctrVars, mqttVars, hubVars, lockVars>>
extVars == <<tryVars, healthVars, lifeVars, moreVars>>
tryOthers == <<pubVars, consVars, healthVars, lifeVars, moreVars>>
healthOthers == <<pubVars, consVars, tryVars, lifeVars, moreVars>>
lifeOthers == <<consVars, tryVars, healthVars, moreVars>>
ctrOthers == <<pubVars, consVars, tryVars, healthVars, lifeVars, mqttVars,
               hubVars, lockVars>>
mqttOthers == <<pubVars, consVars, healthVars, lifeVars, ctrVars, hubVars,
                lockVars>>
hubOthers == <<pubVars, consVars, tryVars, healthVars, lifeVars, ctrVars,
               mqttVars, lockVars>>
lockOthers == <<pubVars, consVars, tryVars, healthVars, lifeVars, ctrVars,
                mqttVars, hubVars>>
vars == <<pubVars, consVars, extVars>>

Slots == 1..publishNum

\* ---- pure helpers ----

\* ring.Next on a ring of n elements numbered 1..n
RingNext(i, n) == (i % n) + 1

\* sync.WaitGroup Add(1) / Done()
WgAdd(n) == n + 1
WgDone(n) == n - 1

\* the body of the publishConfirm loop releases the counter once
DrainOneSkipped(n) == n
DrainOne(n) == WgDone(n)

\* a lock can be taken when nobody holds it
RngLockIgnored == TRUE
RngLockFree == rngLock = None
SlotLockIgnored(s) == TRUE
SlotLockFree(s) == slotLock[s] = None

IsErr(x) == x \in {"errClosed", "errDeclare", "errSend"}

\* ---- initial state: after a successful initializeConnection ----
ConsInit ==
  /\ ctxDone = FALSE
  /\ cpc = "idle"
  /\ cret = "none"
  /\ setupOK = FALSE
  /\ subs = 0
  /\ ready = [i \in 1..NumMsgs |-> i]
  /\ msgs = <<>>
  /\ msgsClosed = FALSE
  /\ unacked = {}
  /\ cur = None
  /\ hres = "none"
  /\ fails = 0
  /\ recv = [m \in Msgs |-> 0]
  /\ res = [m \in Msgs |-> <<>>]
  /\ sigs = [m \in Msgs |-> <<>>]

PubInit ==
  /\ publishNum \in 1..MaxPublishNum
  /\ rngCur = 1
  /\ rngLock = None
  /\ slotLock = [s \in 1..publishNum |-> None]
  /\ wg = [s \in 1..publishNum |-> 0]
  /\ rtrn = [s \in 1..publishNum |-> <<>>]
  /\ rtrnClosed = [s \in 1..publishNum |-> FALSE]
  /\ closed = [s \in 1..publishNum |-> FALSE]
  /\ chnOpen = [s \in 1..publishNum |-> TRUE]
  /\ published = [s \in 1..publishNum |-> 0]
  /\ pending = [s \in 1..publishNum |-> <<>>]
  /\ listener = [s \in 1..publishNum |-> "running"]
  /\ pc = [p \in Pubs |-> "idle"]
  /\ r = [p \in Pubs |-> None]
  /\ cl = [p \in Pubs |-> None]
  /\ myTag = [p \in Pubs |-> 0]
  /\ calls = [p \in Pubs |-> 0]
  /\ ret = [p \in Pubs |-> "none"]
  /\ conf = [p \in Pubs |-> "none"]
  /\ selHist = <<>>
  /\ consumed = [s \in 1..publishNum |-> 0]

\* safe.Try has not been called; maxDuration is its input
NilErr == [kind |-> "nil", id |-> 0]
TryInit ==
  /\ tMax \in 0..MaxTryDur
  /\ tnow = 0
  /\ tstart = 0
  /\ attempt = 0
  /\ terr = NilErr
  /\ tpc = "idle"
  /\ tret = NilErr
  /\ invoked = 0
  /\ lastOut = [res |-> "none", id |-> 0]
  /\ lastSleep = 0

\* Health has not been called; what the buffer holds is its input
RECURSIVE SeqsUpTo(_, _)
SeqsUpTo(S, n) ==
  IF n = 0 THEN {<<>>}
  ELSE LET shorter == SeqsUpTo(S, n - 1)
       IN shorter \cup {Append(q, x) : q \in shorter, x \in S}
HealthInit ==
  /\ notifyClose \in SeqsUpTo(1..NumErrs, MaxNotify)
  /\ Len(notifyClose) <= NotifyCloseCap
  /\ connErrored = FALSE
  /\ hret = [kind |-> "none", id |-> 0]
  /\ healthCalls = 0
  /\ reported = FALSE

\* container.go:18-24,53-64  a new Container on which the names of Kind have
\* been bound; nothing resolved yet
CtrInit ==
  /\ cmuW = None
  /\ cmuR = 0
  /\ cservices = {n \in Names : Kind[n] = "service"}
  /\ cfactories = {n \in Names : Kind[n] \in {"singleton", "factory"}}
  /\ csingletons = {n \in Names : Kind[n] = "singleton"}
  /\ csingle = [n \in Names |-> 0]
  /\ ctouched = {}
  /\ cadmin = 0
  /\ cadmErr = "none"
  /\ rstack = [g \in Resolvers |-> <<>>]
  /\ rres = [g \in Resolvers |-> NoResult]
  /\ rcalls = [g \in Resolvers |-> 0]
  /\ fCalls = [n \in Names |-> 0]
  /\ fFails = [n \in Names |-> 0]
  /\ made = 0

\* part_019:49  Initialize has not been called
MqttInit ==
  /\ mpc = "idle"
  /\ initErr = NilErr
  /\ mret = NilErr
  /\ mclients = 0

\* websocket.go:75-87  a new Hub; no connection upgraded yet
HubInit ==
  /\ hconns = {}
  /\ hlevel = [c \in Conns |-> 0]
  /\ closedBy = [c \in Conns |-> "none"]
  /\ closes = [c \in Conns |-> 0]
  /\ cst = [c \in Conns |-> "new"]
  /\ wpump = [c \in Conns |-> "none"]
  /\ drained = 0
  /\ hpc = "idle"
  /\ todo = {}
  /\ bcastLen = 0
  /\ bissued = 0
  /\ hfatal = "none"

\* init.go:24  connRngLock is free
LockInit ==
  /\ connRngLock = None
  /\ connLockIdx = 0

MoreIdle == CtrInit /\ MqttInit /\ HubInit /\ LockInit

\* nothing registered, Initialize not called
LifeInit ==
  /\ registered = <<>>
  /\ onceState = "new"
  /\ snapshot = <<>>
  /\ idx = 1
  /\ ipc = [i \in InitCallers |-> "idle"]
  /\ connNum \in 1..MaxConnNum
  /\ connFilled = [b \in Brokers |-> -1]
  /\ connCur = [b \in Brokers |-> 0]
  /\ rngFilled = [b \in Brokers |-> -1]
  /\ killSet = FALSE
  /\ killCancelled = FALSE
  /\ healthReg = FALSE
  /\ initFailed = FALSE
  /\ crashed = FALSE
  /\ consAcquired = FALSE
  /\ dialed = 0
  /\ bodyRuns = 0
  /\ connTries = 0
  /\ closeCalls = 0
  /\ MoreIdle

\* after one Initialize call that registered and built the pools of Target
LifeBuiltState ==
  /\ registered = <<Target>>
  /\ onceState = "done"
  /\ snapshot = <<Target>>
  /\ idx = 2
  /\ ipc = [i \in InitCallers |-> IF i = 1 THEN "returned" ELSE "idle"]
  /\ connNum = 1
  /\ connFilled = [b \in Brokers |-> IF b = Target THEN 1 ELSE -1]
  /\ connCur = [b \in Brokers |-> 0]
  /\ rngFilled = [b \in Brokers |-> IF b = Target THEN publishNum ELSE -1]
  /\ killSet = TRUE
  /\ killCancelled = FALSE
  /\ healthReg = TRUE
  /\ initFailed = FALSE
  /\ crashed = FALSE
  /\ consAcquired = FALSE
  /\ dialed = 1
  /\ bodyRuns = 1
  /\ connTries = 1
  /\ closeCalls = 0
LifeBuilt == LifeBuiltState /\ MoreIdle

ExtIdle ==
  /\ TryInit /\ tMax = MaxTryDur
  /\ HealthInit /\ notifyClose = <<>>
  /\ LifeBuilt

Init == PubInit /\ ConsInit /\ ExtIdle

\* ---- Connection.Publish ----

\* part_008:160-161  a new call takes the ring lock
PubLockRing(p) ==
  /\ pc[p] = "idle"
  /\ calls[p] < MaxCalls
  /\ RngLockFree
  /\ rngLock' = p
  /\ calls' = [calls EXCEPT ![p] = @ + 1]
  /\ pc' = [pc EXCEPT ![p] = "ring"]
  /\ ret' = [ret EXCEPT ![p] = "none"]
  /\ conf' = [conf EXCEPT ![p] = "none"]
  /\ myTag' = [myTag EXCEPT ![p] = 0]
  /\ UNCHANGED <<publishNum, rngCur, slotLock, wg, rtrn, rtrnClosed, closed,
                 chnOpen, published, pending, listener, r, cl, selHist,
                 consumed, consVars, extVars>>

\* part_008:162-163  r := rng[c.name]; cl := r.Value
PubReadRing(p) ==
  /\ pc[p] = "ring"
  /\ r' = [r EXCEPT ![p] = rngCur]
  /\ cl' = [cl EXCEPT ![p] = rngCur]
  /\ selHist' = Append(selHist, rngCur)
  /\ pc' = [pc EXCEPT ![p] = "advance"]
  /\ UNCHANGED <<publishNum, rngCur, rngLock, slotLock, wg, rtrn, rtrnClosed,
                 closed, chnOpen, published, pending, listener, myTag, calls,
                 ret, conf, consumed, consVars, extVars>>

\* part_008:164-165  rng[c.name] = r.Next(); rngLock.Unlock()
PubAdvanceRing(p) ==
  /\ pc[p] = "advance"
  /\ rngCur' = RingNext(r[p], publishNum)
  /\ rngLock' = IF rngLock = p THEN None ELSE rngLock
  /\ pc' = [pc EXCEPT ![p] = "slotlock"]
  /\ UNCHANGED <<publishNum, slotLock, wg, rtrn, rtrnClosed, closed, chnOpen,
                 published, pending, listener, r, cl, myTag, calls, ret, conf,
                 selHist, consumed, consVars, extVars>>

\* part_008:167-172  cl.lock.Lock(); if cl.closed { return error }
PubLockSlot(p) ==
  /\ pc[p] = "slotlock"
  /\ SlotLockFree(cl[p])
  /\ IF closed[cl[p]]
       THEN /\ pc' = [pc EXCEPT ![p] = "idle"]
            /\ ret' = [ret EXCEPT ![p] = "errClosed"]
            /\ UNCHANGED slotLock
       ELSE /\ pc' = [pc EXCEPT ![p] = "declare"]
            /\ slotLock' = [slotLock EXCEPT ![cl[p]] = p]
            /\ UNCHANGED ret
  /\ UNCHANGED <<publishNum, rngCur, rngLock, wg, rtrn, rtrnClosed, closed,
                 chnOpen, published, pending, listener, r, cl, myTag, calls,
                 conf, selHist, consumed, consVars, extVars>>

\* part_008:174-195  transient channel and QueueDeclare; either may fail
PubDeclare(p) ==
  /\ pc[p] = "declare"
  /\ \E ok \in BOOLEAN :
       IF ok
         THEN /\ pc' = [pc EXCEPT ![p] = "add"]
              /\ UNCHANGED <<ret, slotLock>>
         ELSE /\ pc' = [pc EXCEPT ![p] = "idle"]
              /\ ret' = [ret EXCEPT ![p] = "errDeclare"]
              /\ slotLock' = [slotLock EXCEPT ![cl[p]] = None]
  /\ UNCHANGED <<publishNum, rngCur, rngLock, wg, rtrn, rtrnClosed, closed,
                 chnOpen, published, pending, listener, r, cl, myTag, calls,
                 conf, selHist, consumed, consVars, extVars>>

\* part_008:197  cl.wg.Add(1)
PubAdd(p) ==
  /\ pc[p] = "add"
  /\ wg' = [wg EXCEPT ![cl[p]] = WgAdd(@)]
  /\ pc' = [pc EXCEPT ![p] = "send"]
  /\ UNCHANGED <<publishNum, rngCur, rngLock, slotLock, rtrn, rtrnClosed,
                 closed, chnOpen, published, pending, listener, r, cl, myTag,
                 calls, ret, conf, selHist, consumed, consVars, extVars>>

\* part_008:199-209  cl.chn.Publish(...): fails on a closed channel, may
\* fail on an open one; a successful send gets the next delivery tag
PubSend(p) ==
  /\ pc[p] = "send"
  /\ \E ok \in BOOLEAN :
       IF ok /\ chnOpen[cl[p]]
         THEN /\ published' = [published EXCEPT ![cl[p]] = @ + 1]
              /\ myTag' = [myTag EXCEPT ![p] = published[cl[p]] + 1]
              /\ pending' = [pending EXCEPT
                               ![cl[p]] = Append(@, published[cl[p]] + 1)]
              /\ pc' = [pc EXCEPT ![p] = "wait"]
         ELSE /\ pc' = [pc EXCEPT ![p] = "senderr"]
              /\ UNCHANGED <<published, myTag, pending>>
  /\ UNCHANGED <<publishNum, rngCur, rngLock, slotLock, wg, rtrn, rtrnClosed,
                 closed, chnOpen, listener, r, cl, calls, ret, conf, selHist,
                 consumed, consVars, extVars>>

\* the error path without the explicit release of the counter
PubSendErrNoDone(p) ==
  /\ pc[p] = "senderr"
  /\ slotLock' = [slotLock EXCEPT ![cl[p]] = None]
  /\ ret' = [ret EXCEPT ![p] = "errSend"]
  /\ pc' = [pc EXCEPT ![p] = "idle"]
  /\ UNCHANGED <<publishNum, rngCur, rngLock, wg, rtrn, rtrnClosed, closed,
                 chnOpen, published, pending, listener, r, cl, myTag, calls,
                 conf, selHist, consumed, consVars, extVars>>

\* part_008:211-214  if err != nil { cl.wg.Done(); return err } + deferred unlock
PubSendErr(p) ==
  /\ pc[p] = "senderr"
  /\ wg' = [wg EXCEPT ![cl[p]] = WgDone(@)]
  /\ slotLock' = [slotLock EXCEPT ![cl[p]] = None]
  /\ ret' = [ret EXCEPT ![p] = "errSend"]
  /\ pc' = [pc EXCEPT ![p] = "idle"]
  /\ UNCHANGED <<publishNum, rngCur, rngLock, rtrn, rtrnClosed, closed,
                 chnOpen, published, pending, listener, r, cl, myTag, calls,
                 conf, selHist, consumed, consVars, extVars>>

\* part_008:216  cl.wg.Wait() passes when the counter is zero
WaitSkipped(s) == TRUE
WaitPasses(s) == wg[s] = 0

\* part_008:216-218  cl.wg.Wait(); return nil + deferred unlock
PubWaitReturn(p) ==
  /\ pc[p] = "wait"
  /\ WaitPasses(cl[p])
  /\ slotLock' = [slotLock EXCEPT ![cl[p]] = None]
  /\ ret' = [ret EXCEPT ![p] = "nil"]
  /\ pc' = [pc EXCEPT ![p] = "idle"]
  /\ UNCHANGED <<publishNum, rngCur, rngLock, wg, rtrn, rtrnClosed, closed,
                 chnOpen, published, pending, listener, r, cl, myTag, calls,
                 conf, selHist, consumed, consVars, extVars>>

\* ---- publishConfirm (init.go 163-167) ----

\* one iteration of `for range cl.rtrn { cl.wg.Done() }`
ListenerConsume(s) ==
  /\ listener[s] = "running"
  /\ rtrn[s] # <<>>
  /\ rtrn' = [rtrn EXCEPT ![s] = Tail(@)]
  /\ wg' = [wg EXCEPT ![s] = DrainOne(@)]
  /\ consumed' = [consumed EXCEPT ![s] = @ + 1]
  /\ conf' = [q \in Pubs |->
                IF pc[q] = "wait" /\ cl[q] = s
                   /\ myTag[q] = Head(rtrn[s]).DeliveryTag
                  THEN (IF Head(rtrn[s]).Ack THEN "ack" ELSE "nack")
                  ELSE conf[q]]
  /\ UNCHANGED <<publishNum, rngCur, rngLock, slotLock, rtrnClosed, closed,
                 chnOpen, published, pending, listener, pc, r, cl, myTag,
                 calls, ret, selHist, consVars, extVars>>

\* the range loop ends when rtrn is closed and drained
ListenerExit(s) ==
  /\ listener[s] = "running"
  /\ rtrn[s] = <<>>
  /\ rtrnClosed[s]
  /\ listener' = [listener EXCEPT ![s] = "stopped"]
  /\ UNCHANGED <<publishNum, rngCur, rngLock, slotLock, wg, rtrn, rtrnClosed,
                 closed, chnOpen, published, pending, pc, r, cl, myTag, calls,
                 ret, conf, selHist, consumed, consVars, extVars>>

\* ---- environment of the publish side ----

\* the broker confirms the oldest unconfirmed send of a channel, positively
\* or negatively; the client library puts the record on the NotifyPublish
\* channel (init.go 142-147)
BrokerConfirm(s) ==
  /\ chnOpen[s]
  /\ pending[s] # <<>>
  /\ Len(rtrn[s]) < ConfirmLenDefault
  /\ \E a \in BOOLEAN :
       rtrn' = [rtrn EXCEPT
                  ![s] = Append(@, [DeliveryTag |-> Head(pending[s]), Ack |-> a])]
  /\ pending' = [pending EXCEPT ![s] = Tail(@)]
  /\ UNCHANGED <<publishNum, rngCur, rngLock, slotLock, wg, rtrnClosed,
                 closed, chnOpen, published, listener, pc, r, cl, myTag,
                 calls, ret, conf, selHist, consumed, consVars, extVars>>

\* the publish channel (or its connection) is shut down: the library closes
\* the NotifyPublish channel and outstanding confirmations never arrive
ChannelClose(s) ==
  /\ chnOpen[s]
  /\ chnOpen' = [chnOpen EXCEPT ![s] = FALSE]
  /\ rtrnClosed' = [rtrnClosed EXCEPT ![s] = TRUE]
  /\ pending' = [pending EXCEPT ![s] = <<>>]
  /\ UNCHANGED <<publishNum, rngCur, rngLock, slotLock, wg, rtrn, closed,
                 published, listener, pc, r, cl, myTag, calls, ret, conf,
                 selHist, consumed, consVars, extVars>>

Next ==
  \/ \E p \in Pubs : PubLockRing(p)
  \/ \E p \in Pubs : PubReadRing(p)
  \/ \E p \in Pubs : PubAdvanceRing(p)
  \/ \E p \in Pubs : PubLockSlot(p)
  \/ \E p \in Pubs : PubDeclare(p)
  \/ \E p \in Pubs : PubAdd(p)
  \/ \E p \in Pubs : PubSend(p)
  \/ \E p \in Pubs : PubSendErr(p)
  \/ \E p \in Pubs : PubWaitReturn(p)
  \/ \E s \in Slots : ListenerConsume(s)
  \/ \E s \in Slots : ListenerExit(s)
  \/ \E s \in Slots : BrokerConfirm(s)
  \/ \E s \in Slots : ChannelClose(s)

Spec == Init /\ [][Next]_vars

\* Every goroutine that can run does run: publishers, the listeners and the
\* broker's confirmations.  Channel shutdown is never forced.
PubStep(p) ==
  \/ PubLockRing(p) \/ PubReadRing(p) \/ PubAdvanceRing(p) \/ PubLockSlot(p)
  \/ PubDeclare(p) \/ PubAdd(p) \/ PubSend(p) \/ PubSendErr(p)
  \/ PubWaitReturn(p)
Fairness ==
  /\ \A p \in Pubs : WF_vars(PubStep(p))
  /\ \A s \in 1..MaxPublishNum :
       /\ WF_vars(s \in Slots /\ (ListenerConsume(s) \/ ListenerExit(s)))
       /\ WF_vars(s \in Slots /\ BrokerConfirm(s))
FairSpec == Spec /\ Fairness

\* ---- properties of Publish ----

HoldsSlot(p) == pc[p] \in {"declare", "add", "send", "senderr", "wait"}
InFlight(p) == pc[p] = "wait" /\ conf[p] = "none"

\* C1: at most one publish is in flight on a slot at a time: whoever is
\* between lock and return on a slot holds its lock alone, and the channel
\* never carries more than one unconfirmed send.
C1_OneInFlightPerSlot ==
  \A s \in Slots :
    /\ Cardinality({p \in Pubs : HoldsSlot(p) /\ cl[p] = s}) <= 1
    /\ \A p \in Pubs : HoldsSlot(p) /\ cl[p] = s => slotLock[s] = p
    /\ Len(pending[s]) + Len(rtrn[s]) <= 1
C1_Witness ==
  \E p, q \in Pubs :
    /\ p # q /\ publishNum = 1
    /\ InFlight(p)
    /\ pc[q] = "slotlock" /\ cl[q] = cl[p]

\* C2: any publishNum consecutive slot selections are pairwise distinct, and
\* at most one call is inside the ring-lock section at a time.
C2_RoundRobin ==
  /\ \A i, j \in 1..Len(selHist) :
       (i < j /\ j - i < publishNum) => selHist[i] # selHist[j]
  /\ Cardinality({p \in Pubs : pc[p] \in {"ring", "advance"}}) <= 1
C2_Witness ==
  /\ publishNum >= 2
  /\ Len(selHist) > publishNum
  /\ \E p, q \in Pubs : p # q /\ pc[p] = "wait" /\ pc[q] = "wait"

\* C3: the listener consumes one record per successful send: the counter is
\* 0 or 1, it is 0 and every send is accounted for when the slot lock is
\* free, and while a publisher waits the counter is the number of sends whose
\* record has not been consumed.
C3_ConfirmAccounting ==
  \A s \in Slots :
    /\ wg[s] \in {0, 1}
    /\ slotLock[s] = None => (wg[s] = 0 /\ consumed[s] = published[s])
    /\ consumed[s] <= published[s] /\ published[s] <= consumed[s] + 1
    /\ \A p \in Pubs :
         pc[p] = "wait" /\ cl[p] = s => wg[s] = published[s] - consumed[s]
C3_Witness ==
  \E s \in Slots : slotLock[s] = None /\ published[s] >= 2 /\ consumed[s] >= 2

\* C4: a call has returned nil only if the listener consumed the record of
\* that call's own send.
C4_NilOnlyAfterConfirm ==
  \A p \in Pubs : ret[p] = "nil" => (conf[p] # "none" /\ myTag[p] > 0)
C4_Witness ==
  \E p \in Pubs : ret[p] = "nil" /\ conf[p] = "ack" /\ calls[p] >= 2

\* C5: a call that has issued its send eventually returns.
C5_SentEventuallyReturns ==
  \A p \in Pubs : (pc[p] = "wait") ~> (pc[p] = "idle")

\* C6: nil is returned only for a positive confirmation; a nack gives an error.
C6_NackIsError ==
  \A p \in Pubs : ret[p] = "nil" => conf[p] = "ack"

\* C7: a failed send returns the send error at once, with the counter of the
\* slot back at zero, its lock free and no confirmation consumed for it.
C7_SendFailureReleases ==
  [][\A p \in Pubs :
       (pc[p] = "senderr" /\ pc'[p] # "senderr") =>
          /\ pc'[p] = "idle" /\ ret'[p] = "errSend" /\ conf'[p] = "none"
          /\ wg'[cl[p]] = 0
          /\ slotLock'[cl[p]] = None]_vars
C7_Witness ==
  \E p, q \in Pubs :
    /\ p # q
    /\ pc[p] = "idle" /\ ret[p] = "errSend"
    /\ cl[q] = cl[p] /\ slotLock[cl[p]] = q /\ pc[q] = "wait"

\* ---- Connection.Consume (part_008:230-283) ----

\* messages the broker takes back when the receive channel goes away
RECURSIVE SeqOfSet(_)
SeqOfSet(S) ==
  IF S = {} THEN <<>>
  ELSE LET m == CHOOSE x \in S : \A y \in S : x <= y
       IN <<m>> \o SeqOfSet(S \ {m})

\* part_008:276-280  the terminal signal chosen from the handler's result
SignalWithoutRequeue(hr) == IF hr = "err" THEN "nack_drop" ELSE "ack"
SignalFor(hr) == IF hr = "err" THEN "nack_requeue" ELSE "ack"

\* part_008:276-281  after the signal the for loop goes round again
ReturnHandlerError(hr) ==
  IF hr = "err" THEN [pc |-> "done", ret |-> "errHandler"]
  ELSE [pc |-> "select", ret |-> "none"]
LoopAfterSignal(hr) == [pc |-> "select", ret |-> "none"]

\* part_008:269  case <-ctx.Done() is ready
CtxReady == ctxDone

\* the deferred ch.Close() of a returning Consume: the broker requeues what
\* was delivered and not acknowledged
CloseReceive ==
  /\ ready' = SeqOfSet(unacked) \o ready
  /\ unacked' = {}
  /\ msgs' = <<>>

\* part_008:231-239  conn.Channel()
ConsOpenChannel ==
  /\ cpc = "idle"
  /\ \E ok \in BOOLEAN :
       IF ok THEN cpc' = "declare" /\ UNCHANGED cret
       ELSE cpc' = "done" /\ cret' = "errSetup"
  /\ UNCHANGED <<pubVars, extVars, ctxDone, setupOK, subs, ready, msgs, msgsClosed,
                 unacked, cur, hres, fails, recv, res, sigs>>

\* part_008:242-252  ch.QueueDeclare(...)
ConsQueueDeclare ==
  /\ cpc = "declare"
  /\ \E ok \in BOOLEAN :
       IF ok THEN cpc' = "subscribe" /\ UNCHANGED cret
       ELSE cpc' = "done" /\ cret' = "errSetup"
  /\ UNCHANGED <<pubVars, extVars, ctxDone, setupOK, subs, ready, msgs, msgsClosed,
                 unacked, cur, hres, fails, recv, res, sigs>>

\* part_008:254-265  ch.Consume(...)
ConsSubscribe ==
  /\ cpc = "subscribe"
  /\ \E ok \in BOOLEAN :
       IF ok THEN /\ cpc' = "select"
                  /\ subs' = subs + 1
                  /\ setupOK' = TRUE
                  /\ UNCHANGED cret
       ELSE /\ cpc' = "done"
            /\ cret' = "errSetup"
            /\ UNCHANGED <<subs, setupOK>>
  /\ UNCHANGED <<pubVars, extVars, ctxDone, ready, msgs, msgsClosed, unacked, cur,
                 hres, fails, recv, res, sigs>>

\* part_008:268-270  select takes case <-ctx.Done(): return nil
ConsSelectDone ==
  /\ cpc = "select"
  /\ CtxReady
  /\ cpc' = "done"
  /\ cret' = "nil"
  /\ IF msgsClosed THEN UNCHANGED <<ready, unacked, msgs>> ELSE CloseReceive
  /\ UNCHANGED <<pubVars, extVars, ctxDone, setupOK, subs, msgsClosed, cur, hres,
                 fails, recv, res, sigs>>

\* part_008:271-274  select takes the receive on a closed channel: return error
ConsRecvClosed ==
  /\ cpc = "select"
  /\ msgs = <<>>
  /\ msgsClosed
  /\ cpc' = "done"
  /\ cret' = "errClosed"
  /\ UNCHANGED <<pubVars, extVars, ctxDone, setupOK, subs, ready, msgs, msgsClosed,
                 unacked, cur, hres, fails, recv, res, sigs>>

\* part_008:271  select takes the receive of a delivery; a select with more
\* than one ready case picks any of them
ConsRecvMsg ==
  /\ cpc = "select"
  /\ msgs # <<>>
  /\ cur' = Head(msgs)
  /\ msgs' = Tail(msgs)
  /\ recv' = [recv EXCEPT ![Head(msgs)] = @ + 1]
  /\ cpc' = "handle"
  /\ UNCHANGED <<pubVars, extVars, ctxDone, cret, setupOK, subs, ready, msgsClosed,
                 unacked, hres, fails, res, sigs>>

\* part_008:276  err := handler(msg.Body); the handler fails or succeeds
ConsHandle ==
  /\ cpc = "handle"
  /\ \E hr \in {"ok", "err"} :
       /\ hr = "err" => fails < MaxFails
       /\ hres' = hr
       /\ res' = [res EXCEPT ![cur] = Append(@, hr)]
       /\ fails' = IF hr = "err" THEN fails + 1 ELSE fails
  /\ cpc' = "signal"
  /\ UNCHANGED <<pubVars, extVars, ctxDone, cret, setupOK, subs, ready, msgs,
                 msgsClosed, unacked, cur, recv, sigs>>

\* part_008:276-281  msg.Nack(false, true) or msg.Ack(false); its error is
\* dropped, and it has no effect at the broker once the channel is gone
ConsSignal ==
  /\ cpc = "signal"
  /\ sigs' = [sigs EXCEPT ![cur] = Append(@, SignalFor(hres))]
  /\ IF msgsClosed
       THEN UNCHANGED <<ready, unacked>>
       ELSE /\ unacked' = unacked \ {cur}
            /\ ready' = IF SignalFor(hres) = "nack_requeue"
                          THEN <<cur>> \o ready ELSE ready
  /\ cpc' = LoopAfterSignal(hres).pc
  /\ cret' = LoopAfterSignal(hres).ret
  /\ UNCHANGED <<pubVars, extVars, ctxDone, setupOK, subs, msgs, msgsClosed, cur,
                 hres, fails, recv, res>>

\* ---- environment of the consume side ----

\* the context passed to Consume is cancelled, before or during the call
CtxCancel ==
  /\ ~ctxDone
  /\ ctxDone' = TRUE
  /\ UNCHANGED <<pubVars, extVars, cpc, cret, setupOK, subs, ready, msgs, msgsClosed,
                 unacked, cur, hres, fails, recv, res, sigs>>

\* the broker pushes the next ready message to the subscribed consumer
BrokerDeliver ==
  /\ subs > 0 /\ cpc # "done" /\ ~msgsClosed
  /\ ready # <<>>
  /\ msgs' = Append(msgs, Head(ready))
  /\ unacked' = unacked \cup {Head(ready)}
  /\ ready' = Tail(ready)
  /\ UNCHANGED <<pubVars, extVars, ctxDone, cpc, cret, setupOK, subs, msgsClosed, cur,
                 hres, fails, recv, res, sigs>>

\* the receive channel is lost: the library closes the delivery channel
ReceiveClose ==
  /\ subs > 0 /\ cpc # "done" /\ ~msgsClosed
  /\ msgsClosed' = TRUE
  /\ CloseReceive
  /\ UNCHANGED <<pubVars, extVars, ctxDone, cpc, cret, setupOK, subs, cur, hres,
                 fails, recv, res, sigs>>

ConsNext ==
  \/ ConsOpenChannel
  \/ ConsQueueDeclare
  \/ ConsSubscribe
  \/ ConsSelectDone
  \/ ConsRecvClosed
  \/ ConsRecvMsg
  \/ ConsHandle
  \/ ConsSignal
  \/ CtxCancel
  \/ BrokerDeliver
  \/ ReceiveClose

ConsumeSpec == Init /\ [][ConsNext]_vars

\* ---- properties of Consume ----

\* C8: every delivery received by the loop gets one handler invocation and
\* one terminal signal, ack after a nil result and nack with requeue after an
\* error; an ack is the last signal of a message; after the signal the loop
\* continues and nothing is returned.
C8_Accounting ==
  \A m \in Msgs :
    /\ recv[m] = Len(res[m]) + (IF cpc = "handle" /\ cur = m THEN 1 ELSE 0)
    /\ Len(res[m]) = Len(sigs[m]) + (IF cpc = "signal" /\ cur = m THEN 1 ELSE 0)
    /\ \A i \in 1..Len(sigs[m]) :
         sigs[m][i] = (IF res[m][i] = "ok" THEN "ack" ELSE "nack_requeue")
    /\ \A i \in 1..(Len(sigs[m]) - 1) : sigs[m][i] = "nack_requeue"
C8_OneSignalPerDelivery ==
  /\ []C8_Accounting
  /\ [][(cpc = "signal" /\ cpc' # "signal") =>
          (cpc' = "select" /\ cret' = "none")]_vars
C8_Witness ==
  \E m \in Msgs : sigs[m] = <<"nack_requeue", "ack">>

\* C9: with ctx cancelled at a select, no further message is handled.
C9_NoHandlerAfterCancel ==
  [][(ctxDone /\ cpc = "select") => cpc' # "handle"]_vars

\* C10: after a successful setup Consume returns nil only with ctx cancelled
\* and an error only with the delivery channel closed; it subscribes once and
\* does nothing more after it has returned.
C10_Returns ==
  /\ cret = "nil" => (ctxDone /\ setupOK)
  /\ cret = "errClosed" => (msgsClosed /\ setupOK)
  /\ (cpc = "done" /\ setupOK) => cret \in {"nil", "errClosed"}
  /\ cpc # "done" => cret = "none"
  /\ subs <= 1
C10_TwoWaysOut ==
  /\ []C10_Returns
  /\ [][cpc = "done" =>
          (cpc' = "done" /\ cret' = cret /\ subs' = subs /\ recv' = recv)]_vars
C10_Witness ==
  /\ cpc = "done" /\ cret = "errClosed"
  /\ ready # <<>>
  /\ \E m \in Msgs : Len(sigs[m]) >= 1

\* ---- safe.Try (part_010:282-327), time in seconds ----

\* what one invocation of fn can do: return nil, return an error, or panic
\* with an error value, a string, some other value, or nil
FnOutcomes == {"ok", "err", "panicErr", "panicStr", "panicOther", "panicNil"}
IsPanic(o) == o \in {"panicErr", "panicStr", "panicOther", "panicNil"}

\* part_010:329-338  recoverToError; k identifies the invocation.  A
\* panic(nil) is recovered as a *runtime.PanicNilError, which is an error.
RecoverToErrorNilDefault(o, k) ==
  CASE o \in {"panicErr", "panicNil"} -> [kind |-> "panicval", id |-> k]
    [] o = "panicStr" -> [kind |-> "PanicError", id |-> k]
    [] OTHER -> NilErr
RecoverToError(o, k) ==
  CASE o \in {"panicErr", "panicNil"} -> [kind |-> "panicval", id |-> k]
    [] o = "panicStr" -> [kind |-> "PanicError", id |-> k]
    [] OTHER -> [kind |-> "PanicError", id |-> 0]

\* part_010:289-302  err after the closure that calls fn under recover
AttemptError(o, k) ==
  IF o = "ok" THEN NilErr
  ELSE IF o = "err" THEN [kind |-> "fn", id |-> k]
  ELSE RecoverToError(o, k)

\* part_010:308  time.Since(start) >= maxDuration
TimedOutStrict(elapsed, d) == elapsed > d
TimedOut(elapsed, d) == elapsed >= d

\* part_010:314-317  backoff := attempt seconds, capped
BackoffNoCap(k) == k
Backoff(k) == IF k > BackoffCapSec THEN BackoffCapSec ELSE k

\* part_010:313-325  seconds slept before attempt k + 1 when attempts 1..k
\* all failed inside the window
RECURSIVE SleepSum(_)
SleepSum(k) == IF k <= 0 THEN 0 ELSE Backoff(k) + SleepSum(k - 1)

\* the part of the elapsed time that was spent inside fn
FnTime == (tnow - tstart) - SleepSum(attempt - 1)

\* part_010:283-284
TryStart ==
  /\ tpc = "idle"
  /\ tstart' = tnow
  /\ attempt' = 0
  /\ tpc' = "invoke"
  /\ UNCHANGED <<tryOthers, tMax, tnow, terr, tret, invoked, lastOut,
                 lastSleep>>

\* part_010:287-302  attempt++ and one invocation of fn, which takes time
TryInvoke ==
  /\ tpc = "invoke"
  /\ attempt' = attempt + 1
  /\ invoked' = invoked + 1
  /\ \E o \in FnOutcomes, dur \in 0..MaxFnDur :
       /\ terr' = AttemptError(o, attempt + 1)
       /\ lastOut' = [res |-> o, id |-> attempt + 1]
       /\ tnow' = tnow + dur
  /\ tpc' = "check"
  /\ UNCHANGED <<tryOthers, tMax, tstart, tret, lastSleep>>

\* part_010:304-306
TryReturnNil ==
  /\ tpc = "check"
  /\ terr = NilErr
  /\ tret' = NilErr
  /\ tpc' = "done"
  /\ UNCHANGED <<tryOthers, tMax, tnow, tstart, attempt, terr,
                 invoked, lastOut, lastSleep>>

TryReturnErrOnlyFnError ==
  /\ tpc = "check"
  /\ terr # NilErr
  /\ lastOut.res = "err"
  /\ TimedOut(tnow - tstart, tMax)
  /\ tret' = terr
  /\ tpc' = "done"
  /\ UNCHANGED <<tryOthers, tMax, tnow, tstart, attempt, terr,
                 invoked, lastOut, lastSleep>>

\* part_010:308-311
TryReturnErr ==
  /\ tpc = "check"
  /\ terr # NilErr
  /\ TimedOut(tnow - tstart, tMax)
  /\ tret' = terr
  /\ tpc' = "done"
  /\ UNCHANGED <<tryOthers, tMax, tnow, tstart, attempt, terr,
                 invoked, lastOut, lastSleep>>

\* part_010:313-325
TrySleep ==
  /\ tpc = "check"
  /\ terr # NilErr
  /\ ~TimedOut(tnow - tstart, tMax)
  /\ lastSleep' = Backoff(attempt)
  /\ tnow' = tnow + Backoff(attempt)
  /\ tpc' = "invoke"
  /\ UNCHANGED <<tryOthers, tMax, tstart, attempt, terr, tret,
                 invoked, lastOut>>

TryNext ==
  \/ TryStart
  \/ TryInvoke
  \/ TryReturnNil
  \/ TryReturnErr
  \/ TrySleep

TrySpecInit ==
  /\ PubInit /\ ConsInit /\ TryInit
  /\ HealthInit /\ notifyClose = <<>>
  /\ LifeBuilt
TrySpec == TrySpecInit /\ [][TryNext]_vars

\* ---- properties of Try ----

\* Try is a sequential loop: it goes on as long as fn returns
TryFairSpec == TrySpec /\ WF_vars(TryNext)

\* a window long enough for the backoff to reach its cap
LongTryInit ==
  /\ tMax = LongWindow
  /\ tnow = 0
  /\ tstart = 0
  /\ attempt = 0
  /\ terr = NilErr
  /\ tpc = "idle"
  /\ tret = NilErr
  /\ invoked = 0
  /\ lastOut = [res |-> "none", id |-> 0]
  /\ lastSleep = 0
LongTrySpecInit ==
  /\ PubInit /\ ConsInit /\ LongTryInit
  /\ HealthInit /\ notifyClose = <<>>
  /\ LifeBuilt
LongTrySpec == LongTrySpecInit /\ [][TryNext]_vars

\* C19: Try invokes fn at least once, returns nil right after an invocation
\* that returned nil, and after a failed invocation returns that error iff
\* the elapsed time has reached maxDuration, else sleeps and invokes again.
C19_Results ==
  /\ invoked = attempt
  /\ tpc = "done" => invoked >= 1
  /\ (tpc = "done" /\ tret = NilErr) => lastOut.res = "ok"
  /\ (tpc = "done" /\ tret # NilErr) =>
       /\ lastOut.res # "ok" /\ lastOut.id = invoked
       /\ lastOut.res = "err" => tret = [kind |-> "fn", id |-> invoked]
       /\ tnow - tstart >= tMax
C19_TryContract ==
  /\ []C19_Results
  /\ [][(tpc = "check" /\ tpc' # "check") =>
          IF lastOut.res = "ok"
            THEN tpc' = "done" /\ tret' = NilErr /\ invoked' = invoked
            ELSE IF tnow - tstart >= tMax
                   THEN tpc' = "done" /\ tret' # NilErr /\ invoked' = invoked
                   ELSE tpc' = "invoke" /\ tnow' >= tnow + 1]_vars
C19_Witness ==
  /\ tpc = "done" /\ invoked >= 3
  /\ tret = [kind |-> "fn", id |-> invoked]

\* C20: an invocation that panics leaves a non-nil error, is retried inside
\* the window like a failed one, and is never answered with nil.
C20_PanicContained ==
  (tpc \in {"check", "done"} /\ IsPanic(lastOut.res)) =>
     /\ terr # NilErr
     /\ tpc = "done" => (tret = terr /\ tnow - tstart >= tMax)
C20_Witness ==
  /\ tpc = "done" /\ invoked >= 2
  /\ lastOut.res = "panicOther" /\ tret = [kind |-> "PanicError", id |-> 0]

\* ---- ignite.Health (init.go 33-47) ----

\* init.go:41-46  the result for a received record; 0 is a nil *amqp.Error
HealthResult(rec) ==
  IF rec # 0 THEN [kind |-> "err", id |-> rec] ELSE [kind |-> "nil", id |-> 0]

\* init.go:44  the select has a default case, so an empty buffer never blocks
NoDefaultCase == FALSE
DefaultReady == TRUE

\* init.go:38-47  one call of Health: a receive if a record is buffered,
\* the default case otherwise
Health ==
  /\ healthCalls < MaxHealthCalls
  /\ notifyClose # <<>> \/ DefaultReady
  /\ healthCalls' = healthCalls + 1
  /\ IF notifyClose # <<>>
       THEN /\ hret' = HealthResult(Head(notifyClose))
            /\ notifyClose' = Tail(notifyClose)
            /\ reported' = (reported \/ Head(notifyClose) # 0)
       ELSE /\ hret' = [kind |-> "nil", id |-> 0]
            /\ UNCHANGED <<notifyClose, reported>>
  /\ UNCHANGED <<healthOthers, connErrored>>

\* a broker connection is closed unexpectedly.  initializeConnection
\* (init.go 93-98) keeps the dialled connection without passing notifyClose
\* to it, so nothing is put on the buffer.
ConnUnexpectedClose ==
  /\ ~connErrored
  /\ connErrored' = TRUE
  /\ UNCHANGED <<healthOthers, notifyClose, hret, healthCalls, reported>>

HealthNext ==
  \/ Health
  \/ ConnUnexpectedClose

HealthSpecInit ==
  /\ PubInit /\ ConsInit /\ TryInit /\ tMax = MaxTryDur
  /\ HealthInit
  /\ LifeBuilt
HealthSpec == HealthSpecInit /\ [][HealthNext]_vars

\* ---- properties of Health ----

\* C15: a call of Health can always complete; with a record buffered it
\* returns an error naming that record, with the buffer empty it returns nil.
C15_HealthNeverBlocks ==
  /\ [](healthCalls < MaxHealthCalls => ENABLED Health)
  /\ [][healthCalls' # healthCalls =>
          /\ notifyClose = <<>> => hret' = [kind |-> "nil", id |-> 0]
          /\ notifyClose # <<>> =>
               (hret' = [kind |-> "err", id |-> Head(notifyClose)]
                /\ Len(notifyClose') = Len(notifyClose) - 1)]_vars
C15_Witness ==
  /\ healthCalls >= 2 /\ reported
  /\ notifyClose = <<>> /\ hret.kind = "nil"

\* C16: once a connection has signalled an unexpected closure, or Health has
\* reported an error, every later call of Health reports an error.
C16_ErroredIsTerminal ==
  [][(healthCalls' # healthCalls /\ (connErrored \/ reported)) =>
        hret'.kind = "err"]_vars

\* ---- RegisterRabbit, Initialize, initializeConnection, Close ----

\* the slot state before any pool is built: no channel, no listener
LifePubInit ==
  /\ publishNum \in 1..MaxPublishNum
  /\ rngCur = 1
  /\ rngLock = None
  /\ slotLock = [s \in 1..publishNum |-> None]
  /\ wg = [s \in 1..publishNum |-> 0]
  /\ rtrn = [s \in 1..publishNum |-> <<>>]
  /\ rtrnClosed = [s \in 1..publishNum |-> FALSE]
  /\ closed = [s \in 1..publishNum |-> FALSE]
  /\ chnOpen = [s \in 1..publishNum |-> FALSE]
  /\ published = [s \in 1..publishNum |-> 0]
  /\ pending = [s \in 1..publishNum |-> <<>>]
  /\ listener = [s \in 1..publishNum |-> "none"]
  /\ pc = [p \in Pubs |-> "idle"]
  /\ r = [p \in Pubs |-> None]
  /\ cl = [p \in Pubs |-> None]
  /\ myTag = [p \in Pubs |-> 0]
  /\ calls = [p \in Pubs |-> 0]
  /\ ret = [p \in Pubs |-> "none"]
  /\ conf = [p \in Pubs |-> "none"]
  /\ selHist = <<>>
  /\ consumed = [s \in 1..publishNum |-> 0]

Alive == ~crashed

\* init.go:185-194  RegisterRabbit appends; brokers are named 1, 2, ...
RegisterRabbit ==
  /\ Len(registered) < MaxBrokers
  /\ registered' = Append(registered, Len(registered) + 1)
  /\ UNCHANGED <<pubVars, lifeOthers, onceState, snapshot, idx, ipc, connNum,
                 connFilled, connCur, rngFilled, killSet, killCancelled,
                 healthReg, initFailed, crashed, consAcquired, dialed,
                 bodyRuns, connTries, closeCalls>>

\* init.go:58  sync.Once runs the body for the first caller only
OnceRerunsAfterFailure == onceState = "new" \/ (onceState = "done" /\ initFailed)
OnceFresh == onceState = "new"

\* init.go:57  Initialize has no result: what its caller gets back
InitializeResult == "void"

\* init.go:57-59  a call of Initialize reaches once.Do: the first caller
\* runs the body, any other caller waits until the body is over and returns
InitEnter(i) ==
  /\ ipc[i] = "idle"
  /\ IF OnceFresh
       THEN /\ onceState' = "running"
            /\ snapshot' = registered
            /\ idx' = 1
            /\ bodyRuns' = bodyRuns + 1
            /\ ipc' = [ipc EXCEPT ![i] = "body"]
       ELSE /\ onceState = "done"
            /\ ipc' = [ipc EXCEPT ![i] = "returned"]
            /\ UNCHANGED <<onceState, snapshot, idx, bodyRuns>>
  /\ UNCHANGED <<pubVars, lifeOthers, registered, connNum, connFilled, connCur,
                 rngFilled, killSet, killCancelled, healthReg, initFailed,
                 crashed, consAcquired, dialed, connTries, closeCalls>>

\* where initializeConnection can stop: a failed dial j (init.go:93-96), the
\* exchange channel (104-107), the exchange declaration (109-121), the j-th
\* publish channel (138-141) or its confirm mode (143-146); or nowhere
InitOutcomes ==
  {[at |-> "dial", j |-> j] : j \in 0..(connNum - 1)}
    \cup {[at |-> a, j |-> 0] : a \in {"chan", "exch", "ok"}}
    \cup {[at |-> a, j |-> j] : a \in {"pchan", "confirm"},
                                j \in 0..(publishNum - 1)}

\* init.go:91-100,136  the connection ring left behind
ConnFilledAfter(o) == IF o.at = "dial" THEN o.j ELSE connNum
ConnCurAfter(o) ==
  CASE o.at = "dial" -> o.j
    [] o.at \in {"chan", "exch"} -> 1 % connNum
    [] o.at \in {"pchan", "confirm"} -> (1 + o.j + 1) % connNum
    [] OTHER -> (1 + publishNum) % connNum
DialsOf(o) == IF o.at = "dial" THEN o.j + 1 ELSE connNum

\* init.go:128,135-158  the slot ring left behind; prev when never assigned
RngFilledAfter(o, prev) ==
  CASE o.at \in {"dial", "chan", "exch"} -> prev
    [] o.at \in {"pchan", "confirm"} -> o.j
    [] OTHER -> publishNum

\* init.go:61,71  initializeConnection is entered for the next broker of the
\* range and assigns kill and killCancel, before it asks for any lock; the
\* context it replaces is left as it was, cancelled or not
InitKill(i) ==
  /\ ipc[i] = "body"
  /\ idx <= Len(snapshot)
  /\ killSet' = TRUE
  /\ killCancelled' = FALSE
  /\ ipc' = [ipc EXCEPT ![i] = "conn"]
  /\ UNCHANGED <<pubVars, lifeOthers, registered, onceState, snapshot, idx,
                 connNum, connFilled, connCur, rngFilled, healthReg,
                 initFailed, crashed, consAcquired, dialed, bodyRuns,
                 connTries, closeCalls>>

\* init.go:72-161  the rest of initializeConnection. It holds connRngLock and
\* rngLock from line 84 to its return, so no other call sees the rings in
\* an intermediate state.
InitConnection(i) ==
  /\ ipc[i] = "conn"
  /\ idx <= Len(snapshot)
  /\ RngLockFree
  /\ \E o \in InitOutcomes :
       LET b == snapshot[idx]
           filled == RngFilledAfter(o, rngFilled[b])
       IN /\ connFilled' = [connFilled EXCEPT ![b] = ConnFilledAfter(o)]
          /\ connCur' = [connCur EXCEPT ![b] = ConnCurAfter(o)]
          /\ rngFilled' = [rngFilled EXCEPT ![b] = filled]
          /\ dialed' = dialed + DialsOf(o)
          /\ IF b = Target /\ filled >= 0
               THEN /\ chnOpen' = [s \in Slots |-> s <= filled]
                    /\ listener' = [s \in Slots |->
                                      IF s <= filled THEN "running" ELSE "none"]
                    /\ rngCur' = IF filled = publishNum THEN 1 ELSE filled + 1
               ELSE UNCHANGED <<chnOpen, listener, rngCur>>
          /\ IF o.at = "ok"
               THEN /\ idx' = idx + 1
                    /\ ipc' = [ipc EXCEPT ![i] = "body"]
                    /\ UNCHANGED <<initFailed, onceState>>
               ELSE /\ initFailed' = TRUE
                    /\ onceState' = "done"
                    /\ ipc' = [ipc EXCEPT ![i] = "returned"]
                    /\ UNCHANGED idx
  /\ connTries' = connTries + 1
  /\ UNCHANGED <<publishNum, rngLock, slotLock, wg, rtrn, rtrnClosed, closed,
                 published, pending, pc, r, cl, myTag, calls, ret, conf,
                 selHist, consumed, lifeOthers, registered, snapshot, connNum,
                 killSet, killCancelled, healthReg, crashed, consAcquired,
                 bodyRuns, closeCalls>>

\* init.go:65-67  every broker of the range is initialised
InitFinish(i) ==
  /\ ipc[i] = "body"
  /\ idx > Len(snapshot)
  /\ healthReg' = TRUE
  /\ onceState' = "done"
  /\ ipc' = [ipc EXCEPT ![i] = "returned"]
  /\ UNCHANGED <<pubVars, lifeOthers, registered, snapshot, idx, connNum,
                 connFilled, connCur, rngFilled, killSet, killCancelled,
                 initFailed, crashed, consAcquired, dialed, bodyRuns,
                 connTries, closeCalls>>

\* init.go:170-174  Close with a wait for the publishers that hold a slot
CloseAfterDrain ==
  /\ closeCalls < MaxClose
  /\ \A p \in Pubs : pc[p] \notin {"declare", "add", "send", "senderr", "wait"}
  /\ closeCalls' = closeCalls + 1
  /\ killCancelled' = (killCancelled \/ killSet)
  /\ UNCHANGED <<pubVars, lifeOthers, registered, onceState, snapshot, idx,
                 ipc, connNum, connFilled, connCur, rngFilled, killSet,
                 healthReg, initFailed, crashed, consAcquired, dialed,
                 bodyRuns, connTries>>

\* init.go:170-174  Close: if killCancel != nil { killCancel() }
Close ==
  /\ closeCalls < MaxClose
  /\ closeCalls' = closeCalls + 1
  /\ killCancelled' = (killCancelled \/ killSet)
  /\ UNCHANGED <<pubVars, lifeOthers, registered, onceState, snapshot, idx,
                 ipc, connNum, connFilled, connCur, rngFilled, killSet,
                 healthReg, initFailed, crashed, consAcquired, dialed,
                 bodyRuns, connTries>>

\* part_008:148-157  GetConnection(Target) finds no connection ring
LifeGetConnNotFound(p) ==
  /\ pc[p] = "idle"
  /\ connFilled[Target] = -1
  /\ ret' = [ret EXCEPT ![p] = "errNotFound"]
  /\ UNCHANGED <<publishNum, rngCur, rngLock, slotLock, wg, rtrn, rtrnClosed,
                 closed, chnOpen, published, pending, listener, pc, r, cl,
                 myTag, calls, conf, selHist, consumed, consVars, extVars>>

\* part_008:148-161  GetConnection(Target) succeeds and Publish starts
LifePubLockRing(p) ==
  /\ connFilled[Target] >= 0
  /\ Len(selHist) + Cardinality({q \in Pubs : pc[q] = "ring"}) < MaxLifeCalls
  /\ PubLockRing(p)

\* part_008:162-163  r := rng[c.name]; cl := r.Value.(*chnlLock) panics on a
\* missing ring (nil r) and on an element that was never filled (nil Value)
RingReadPanics == rngFilled[Target] < publishNum

\* part_008:148-165  GetConnection(Target) succeeds and Publish goes through
\* its section under rngLock. On built pools it selects the slot the ring
\* points at, moves the ring one slot on and unlocks: the call then stands
\* at cl.lock.Lock() (line 167), from where Spec and CloseSpec follow it.
\* Else it panics at line 163 with rngLock locked at 161 and no deferred
\* unlock. The panic ends the process unless a caller recovers it (the
\* Recovery middleware of the examples, net/http), and then rngLock stays
\* locked.
LifePublishBegin(p) ==
  /\ pc[p] = "idle"
  /\ connFilled[Target] >= 0
  /\ RngLockFree
  /\ IF RingReadPanics
       THEN /\ rngLock' = p
            /\ ret' = [ret EXCEPT ![p] = "panic"]
            /\ \E recovered \in BOOLEAN : crashed' = ~recovered
            /\ UNCHANGED <<rngCur, pc, r, cl, calls, selHist>>
       ELSE /\ r' = [r EXCEPT ![p] = rngCur]
            /\ cl' = [cl EXCEPT ![p] = rngCur]
            /\ selHist' = Append(selHist, rngCur)
            /\ rngCur' = RingNext(rngCur, publishNum)
            /\ calls' = [calls EXCEPT ![p] = @ + 1]
            /\ ret' = [ret EXCEPT ![p] = "none"]
            /\ pc' = [pc EXCEPT ![p] = "slotlock"]
            /\ UNCHANGED <<crashed, rngLock>>
  /\ UNCHANGED <<publishNum, slotLock, wg, rtrn, rtrnClosed,
                 closed, chnOpen, published, pending, listener,
                 myTag, conf, consumed, lifeOthers,
                 registered, onceState, snapshot, idx, ipc, connNum,
                 connFilled, connCur, rngFilled, killSet, killCancelled,
                 healthReg, initFailed, consAcquired, dialed, bodyRuns,
                 connTries, closeCalls>>

\* part_008:148-157,231-233  GetConnection(Target) succeeds and Consume reads
\* connRng[c.name].Value.(*amqp.Connection), which panics on a nil Value
ConnReadPanics == connCur[Target] >= connFilled[Target]
LifeConsumeAcquire ==
  /\ ~consAcquired
  /\ connFilled[Target] >= 0
  /\ IF ConnReadPanics
       THEN crashed' = TRUE /\ UNCHANGED consAcquired
       ELSE consAcquired' = TRUE /\ UNCHANGED crashed
  /\ UNCHANGED <<pubVars, lifeOthers, registered, onceState, snapshot, idx,
                 ipc, connNum, connFilled, connCur, rngFilled, killSet,
                 killCancelled, healthReg, initFailed, dialed, bodyRuns,
                 connTries, closeCalls>>

LifeNext ==
  \/ Alive /\ RegisterRabbit
  \/ \E i \in InitCallers : Alive /\ InitEnter(i)
  \/ \E i \in InitCallers : Alive /\ InitKill(i)
  \/ \E i \in InitCallers : Alive /\ InitConnection(i)
  \/ \E i \in InitCallers : Alive /\ InitFinish(i)
  \/ Alive /\ Close
  \/ \E p \in Pubs : Alive /\ LifeGetConnNotFound(p)
  \/ \E p \in Pubs : Alive /\ LifePublishBegin(p)
  \/ Alive /\ LifeConsumeAcquire

LifeSpecInit ==
  /\ LifePubInit /\ ConsInit /\ TryInit /\ tMax = MaxTryDur
  /\ HealthInit /\ notifyClose = <<>>
  /\ LifeInit
LifeSpec == LifeSpecInit /\ [][LifeNext]_vars

\* Publish calls against built pools, or with nothing initialised, and Close
CloseNext ==
  \/ Close
  \/ \E p \in Pubs : LifeGetConnNotFound(p)
  \/ \E p \in Pubs : LifePubLockRing(p)
  \/ \E p \in Pubs : PubReadRing(p)
  \/ \E p \in Pubs : PubAdvanceRing(p)
  \/ \E p \in Pubs : PubLockSlot(p)
  \/ \E p \in Pubs : PubDeclare(p)
  \/ \E p \in Pubs : PubAdd(p)
  \/ \E p \in Pubs : PubSend(p)
  \/ \E p \in Pubs : PubSendErr(p)
  \/ \E p \in Pubs : PubWaitReturn(p)
  \/ \E s \in Slots : ListenerConsume(s)
  \/ \E s \in Slots : ListenerExit(s)
  \/ \E s \in Slots : BrokerConfirm(s)
  \/ \E s \in Slots : ChannelClose(s)

CloseSpecInit == Init \/ LifeSpecInit
CloseSpec == CloseSpecInit /\ [][CloseNext]_vars

\* ---- properties of Initialize, GetConnection and Close ----

\* C11: the body of Initialize runs at most once; once it is over no call
\* dials, builds or refills a ring or a slot, and no Initialize call moves
\* the slot ring, which from then on only Publish does (part_008:164); a
\* broker that was not registered when the body started has no pool.
C11_OnceState ==
  /\ bodyRuns <= 1
  /\ onceState = "done" =>
       \A b \in Brokers :
         (\A k \in 1..Len(snapshot) : snapshot[k] # b) =>
            (connFilled[b] = -1 /\ rngFilled[b] = -1)
C12_RetriesAndSurfaces ==
  \A i \in InitCallers :
    (ipc[i] = "returned" /\ initFailed) =>
       (connTries - (idx - 1) >= 2 /\ InitializeResult = "err")

\* C13: a broker GetConnection finds has a full connection ring and a full
\* slot ring.
C13_AllOrNothing ==
  \A b \in Brokers :
    connFilled[b] >= 0 => (connFilled[b] = connNum /\ rngFilled[b] = publishNum)

\* C14: no Publish or Consume call on a Connection from GetConnection panics.
C14_NeverPanics == ~crashed

\* C17: Close can always complete, whatever the Publish calls are doing and
\* whether or not Initialize has run, and it leaves them as they are.
C17_CloseNeverWaits ==
  /\ [](closeCalls < MaxClose => ENABLED Close)
  /\ [][closeCalls' # closeCalls =>
          (pc' = pc /\ slotLock' = slotLock /\ wg' = wg
           /\ crashed' = crashed)]_vars
C17_Witness ==
  /\ closeCalls >= 2 /\ killCancelled
  /\ \E p, q \in Pubs :
       /\ p # q
       /\ pc[p] = "wait" /\ wg[cl[p]] = 1
       /\ pc[q] = "slotlock" /\ cl[q] = cl[p]

\* C18: after Close every slot has its closed flag set.
C18_CloseShutsSlots ==
  killCancelled => \A s \in Slots : closed[s]

\* ---- further properties of Try ----

\* C21: when every invocation fails Try ends; with a window of 3 seconds and
\* no time spent in fn it returns the error within 3 seconds of its start,
\* after at least two invocations.
C21_Within3s ==
  (tpc = "done" /\ tret # NilErr /\ tMax = 3 /\ FnTime = 0) =>
     (tnow - tstart <= 3 /\ invoked >= 2)
C21_FailingTryEnds ==
  /\ []C21_Within3s
  /\ <>(tpc = "done")
C21_Witness ==
  /\ tpc = "done" /\ tret # NilErr /\ tMax = 3 /\ FnTime = 0
  /\ invoked = 3 /\ tnow - tstart = 3

\* C25: the sleep after failed attempt k lasts min(k, 30) seconds, between 1
\* and 30, and is taken only while the elapsed time is below maxDuration.
C25_BackoffSleep ==
  [][(tpc = "check" /\ tpc' = "invoke") =>
       /\ tnow' - tnow = (IF attempt < BackoffCapSec THEN attempt
                                                    ELSE BackoffCapSec)
       /\ tnow' - tnow >= 1 /\ tnow' - tnow <= BackoffCapSec
       /\ tnow - tstart < tMax
       /\ terr # NilErr]_vars
C25_Witness ==
  /\ tpc = "invoke" /\ attempt > BackoffCapSec
  /\ lastSleep = BackoffCapSec

\* ---- further properties of Publish and Consume ----

\* C26: a Publish that is declaring the queue has taken no slot lock yet, so
\* a failed declaration has no slot lock to give back.
C26_DeclareBeforeSlot ==
  \A p \in Pubs : pc[p] = "declare" => \A s \in Slots : slotLock[s] # p

\* C27: every acquisition of a connection by Consume moves the connection
\* ring of the broker one element on.
C27_AcquireAdvances ==
  [][(~consAcquired /\ consAcquired') =>
       connCur'[Target] = (connCur[Target] + 1) % connNum]_vars

\* ---- Container (container.go 26-157) ----

\* the frame a goroutine is executing, and the name it resolves
Top(g) == rstack[g][Len(rstack[g])]
InResolve(g) == rstack[g] # <<>>
AtPc(g, l) == InResolve(g) /\ Top(g).pc = l

\* the stack after the innermost frame of g moved to position l
Goto(g, l) ==
  [rstack EXCEPT ![g] = [@ EXCEPT ![Len(@)] = [@ EXCEPT !.pc = l]]]

\* a Resolve frame returns (val, err): the outermost one to the caller of
\* Resolve, a nested one to the factory that called it (container.go:105,117)
Return(g, val, err, via) ==
  LET st == rstack[g]
      d == Len(st)
  IN IF d = 1
       THEN /\ rstack' = [rstack EXCEPT ![g] = <<>>]
            /\ rres' = [rres EXCEPT ![g] = [name |-> st[1].name, val |-> val,
                                           err |-> err, via |-> via]]
       ELSE /\ rstack' = [rstack EXCEPT ![g] =
                            Append(SubSeq(st, 1, d - 2),
                                   [st[d - 1] EXCEPT !.pc = "made"])]
            /\ UNCHANGED rres

\* the stack after the innermost frame of g moved to position l with the
\* isSingleton it read under the read lock (container.go:87)
GotoAs(g, l, single) ==
  [rstack EXCEPT ![g] = [@ EXCEPT ![Len(@)] =
                           [@ EXCEPT !.pc = l, !.single = single]]]

\* outermost Resolve calls started by goroutines 1..k
RECURSIVE CallsStarted(_)
CallsStarted(k) == IF k = 0 THEN 0 ELSE rcalls[k] + CallsStarted(k - 1)

\* calls made on the container so far, of every method
CallsMade == CallsStarted(NumResolvers) + cadmin

\* a goroutine calls c.Resolve(n)
Resolve(g, n) ==
  /\ ~InResolve(g)
  /\ CallsMade < MaxResolves
  /\ rcalls' = [rcalls EXCEPT ![g] = @ + 1]
  /\ rstack' = [rstack EXCEPT
                 ![g] = <<[name |-> n, pc |-> "rlock", single |-> FALSE]>>]
  /\ UNCHANGED <<ctrOthers, cmuW, cmuR, ctrMaps, ctrAdmin, rres, fCalls,
                 fFails, made>>

\* container.go:68  c.mu.RLock() waits while a goroutine holds the write lock
ResolveRLock(g) ==
  /\ AtPc(g, "rlock")
  /\ cmuW = None
  /\ cmuR' = cmuR + 1
  /\ rstack' = Goto(g, "read")
  /\ UNCHANGED <<ctrOthers, cmuW, ctrMaps, ctrAdmin, rres, rcalls, fCalls,
                 fFails, made>>

\* container.go:70-92  the lookups under the read lock and its release
ResolveRead(g) ==
  /\ AtPc(g, "read")
  /\ cmuR' = cmuR - 1
  /\ LET n == Top(g).name
     IN CASE n \in csingletons /\ csingle[n] # 0 ->
               Return(g, csingle[n], "nil", "cached")
          [] n \in cservices ->
               Return(g, ServiceValue(n), "nil", "service")
          [] n \notin cfactories ->
               Return(g, 0, "notFound", "none")
          [] n \in csingletons ->
               rstack' = GotoAs(g, "wlock", TRUE) /\ UNCHANGED rres
          [] OTHER ->
               rstack' = GotoAs(g, "call", FALSE) /\ UNCHANGED rres
  /\ UNCHANGED <<ctrOthers, cmuW, ctrMaps, ctrAdmin, rcalls, fCalls, fFails,
                 made>>

\* container.go:96  c.mu.Lock() waits for the writer and for every reader
ResolveLock(g) ==
  /\ AtPc(g, "wlock")
  /\ cmuW = None /\ cmuR = 0
  /\ cmuW' = g
  /\ rstack' = Goto(g, "dcheck")
  /\ UNCHANGED <<ctrOthers, cmuR, ctrMaps, ctrAdmin, rres, rcalls, fCalls,
                 fFails, made>>

\* container.go:98  if c.singletons[name] != nil
SecondCheckSkipped(n) == FALSE
SecondCheckHit(n) == csingle[n] # 0

\* container.go:97-102  the second check under the write lock
ResolveSecondCheck(g) ==
  /\ AtPc(g, "dcheck")
  /\ IF SecondCheckHit(Top(g).name)
       THEN /\ cmuW' = None
            /\ Return(g, csingle[Top(g).name], "nil", "second")
       ELSE /\ rstack' = Goto(g, "call")
            /\ UNCHANGED <<cmuW, rres>>
  /\ UNCHANGED <<ctrOthers, cmuR, ctrMaps, ctrAdmin, rcalls, fCalls, fFails,
                 made>>

\* container.go:105,117  factory(c) is entered; a factory with a dependency
\* calls c.Resolve(dep) on the same container
ResolveCallFactory(g) ==
  /\ AtPc(g, "call")
  /\ LET n == Top(g).name
     IN /\ fCalls' = [fCalls EXCEPT ![n] = @ + 1]
        /\ rstack' = IF Dep[n] = None
                       THEN Goto(g, "made")
                       ELSE [rstack EXCEPT ![g] =
                               Append([@ EXCEPT ![Len(@)] =
                                         [@ EXCEPT !.pc = "nested"]],
                                      [name |-> Dep[n], pc |-> "rlock",
                                       single |-> FALSE])]
  /\ UNCHANGED <<ctrOthers, cmuW, cmuR, ctrMaps, ctrAdmin, rres, rcalls,
                 fFails, made>>

\* what a factory can return: a factory of the README shape ignores the
\* error of the Resolve it made and returns a service
FactoryOutcomes(n) == IF Dep[n] = None THEN {"ok", "err"} ELSE {"ok"}

\* container.go:105-113,117  factory(c) returns; a Resolve that read
\* isSingleton stores the instance, which puts the name among the keys of
\* singletons, and releases the write lock
ResolveFactoryReturn(g) ==
  /\ AtPc(g, "made")
  /\ \E o \in FactoryOutcomes(Top(g).name) :
       LET n == Top(g).name
           isSingleton == Top(g).single
       IN /\ cmuW' = IF isSingleton THEN None ELSE cmuW
          /\ IF o = "ok"
               THEN /\ made' = made + 1
                    /\ csingle' = IF isSingleton
                                    THEN [csingle EXCEPT ![n] = made + 1]
                                    ELSE csingle
                    /\ csingletons' = IF isSingleton
                                        THEN csingletons \cup {n}
                                        ELSE csingletons
                    /\ Return(g, made + 1, "nil", "factory")
                    /\ UNCHANGED fFails
               ELSE /\ fFails' = [fFails EXCEPT ![n] = @ + 1]
                    /\ Return(g, 0, "factoryErr", "factory")
                    /\ UNCHANGED <<made, csingle, csingletons>>
  /\ UNCHANGED <<ctrOthers, cmuR, cservices, cfactories, ctrAdmin, rcalls,
                 fCalls>>

\* c.mu.Lock() of a method that holds it for its whole body
WriteLockFree == cmuW = None /\ cmuR = 0

\* the part every binding method shares: the lock, the call count, and what
\* no such method changes
Binding(err) ==
  /\ WriteLockFree
  /\ CallsMade < MaxResolves
  /\ cadmin' = cadmin + 1
  /\ cadmErr' = err
  /\ UNCHANGED <<ctrOthers, cmuW, cmuR, rstack, rres, rcalls, fCalls, fFails,
                 made>>

\* container.go:27-37  Bind: an error when services has the name
Bind(n) ==
  IF n \in cservices
    THEN Binding("bound") /\ UNCHANGED <<ctrMaps, ctouched>>
    ELSE /\ Binding("nil")
         /\ cservices' = cservices \cup {n}
         /\ ctouched' = ctouched \cup {n}
         /\ UNCHANGED <<cfactories, csingletons, csingle>>

\* container.go:40-50  BindFactory: an error when factories has the name
BindFactory(n) ==
  IF n \in cfactories
    THEN Binding("bound") /\ UNCHANGED <<ctrMaps, ctouched>>
    ELSE /\ Binding("nil")
         /\ cfactories' = cfactories \cup {n}
         /\ ctouched' = ctouched \cup {n}
         /\ UNCHANGED <<cservices, csingletons, csingle>>

\* container.go:53-64  Singleton: an error when singletons has the name;
\* else the factory is stored and singletons[name] set to nil
Singleton(n) ==
  IF n \in csingletons
    THEN Binding("bound") /\ UNCHANGED <<ctrMaps, ctouched>>
    ELSE /\ Binding("nil")
         /\ cfactories' = cfactories \cup {n}
         /\ csingletons' = csingletons \cup {n}
         /\ csingle' = [csingle EXCEPT ![n] = 0]
         /\ ctouched' = ctouched \cup {n}
         /\ UNCHANGED cservices

\* container.go:140-147  Remove deletes the name from the three maps
Remove(n) ==
  /\ Binding("nil")
  /\ cservices' = cservices \ {n}
  /\ cfactories' = cfactories \ {n}
  /\ csingletons' = csingletons \ {n}
  /\ csingle' = [csingle EXCEPT ![n] = 0]
  /\ ctouched' = ctouched \cup {n}

\* container.go:150-157  Clear replaces the three maps by empty ones
Clear ==
  /\ Binding("nil")
  /\ cservices' = {}
  /\ cfactories' = {}
  /\ csingletons' = {}
  /\ csingle' = [n \in Names |-> 0]
  /\ ctouched' = Names

ResolverStep(g) ==
  \/ \E n \in Names : Resolve(g, n)
  \/ ResolveRLock(g)
  \/ ResolveRead(g)
  \/ ResolveLock(g)
  \/ ResolveSecondCheck(g)
  \/ ResolveCallFactory(g)
  \/ ResolveFactoryReturn(g)

\* the names the application binds or removes while Resolve calls run: a
\* singleton other factories depend on, and a bound service
Rebound == {Database, Config}

ContainerNext ==
  \/ \E g \in Resolvers : ResolverStep(g)
  \/ \E n \in Rebound : Bind(n)
  \/ \E n \in Rebound : BindFactory(n)
  \/ \E n \in Rebound : Singleton(n)
  \/ \E n \in Rebound : Remove(n)
  \/ Clear
ContainerSpecInit == PubInit /\ publishNum = 1 /\ ConsInit /\ ExtIdle
ContainerSpec == ContainerSpecInit /\ [][ContainerNext]_vars
\* every goroutine inside Resolve goes on whenever it can
ContainerFairSpec ==
  ContainerSpec /\ \A g \in Resolvers : WF_vars(ResolverStep(g))

\* ---- properties of the container ----

\* a name that Singleton bound at set-up and no later Bind, BindFactory,
\* Singleton, Remove or Clear has changed
StaysSingleton(n) == Kind[n] = "singleton" /\ n \notin ctouched

\* C23: for a name bound with Singleton (and left bound) the factory
\* constructs at most one instance however the Resolve calls interleave,
\* every Resolve that returns a value returns that instance, and once it is
\* stored the factory is not invoked again.
C23_OneInstance ==
  /\ \A n \in Names :
       StaysSingleton(n) =>
          /\ fCalls[n] - fFails[n] <= 1 + Cardinality({g \in Resolvers :
                 \E k \in 1..Len(rstack[g]) :
                    rstack[g][k].name = n
                    /\ rstack[g][k].pc \in {"made", "nested"}})
          /\ csingle[n] # 0 => fCalls[n] - fFails[n] = 1
  /\ \A g \in Resolvers :
       (rres[g].name # None /\ StaysSingleton(rres[g].name)
          /\ rres[g].err = "nil") =>
            (rres[g].val # 0 /\ rres[g].val = csingle[rres[g].name])
C23_SingletonOnce ==
  /\ []C23_OneInstance
  /\ [][\A n \in Names :
          (StaysSingleton(n) /\ n \notin ctouched' /\ csingle[n] # 0) =>
             (fCalls'[n] = fCalls[n] /\ csingle'[n] = csingle[n])]_vars
C23_Witness ==
  \E g, h \in Resolvers :
    /\ g # h
    /\ rres[g].name = Database /\ rres[h].name = Database
    /\ rres[g].via = "factory" /\ rres[g].err = "nil"
    /\ rres[h].via = "second" /\ rres[h].val = rres[g].val
    /\ fCalls[Database] = 1

\* C24: a Resolve of a singleton whose factory resolves another name on the
\* same container returns.
C24_NestedResolveReturns ==
  \A g \in Resolvers :
    (InResolve(g) /\ rstack[g][1].name = UserService) ~> ~InResolve(g)

\* ---- mqtt.Initialize (part_019:48-88) ----

\* part_019:49-51  var initErr error; once.Do enters the body
MqttEnter ==
  /\ mpc = "idle"
  /\ mpc' = "body"
  /\ initErr' = NilErr
  /\ UNCHANGED <<mqttOthers, tryVars, mret, mclients>>

\* what one run of the function given to Try does: it connects the clients
\* in order and stores each connected one (part_019:52-82); it returns the
\* error of the first Connect that fails (68-72), or panics, or returns nil
ConnectOutcomes ==
  {[res |-> "ok", at |-> NumClients]}
    \cup {[res |-> o, at |-> j] :
            o \in {"err", "panicErr", "panicStr", "panicOther"},
            j \in 0..(NumClients - 1)}

Max(a, b) == IF a >= b THEN a ELSE b

\* part_010:287-302 with part_019:52-84 as fn: attempt++ and one run of the
\* connect sequence; only a failed Connect assigns initErr (line 70)
MqttAttempt ==
  /\ mpc = "body"
  /\ tpc = "invoke"
  /\ attempt' = attempt + 1
  /\ invoked' = invoked + 1
  /\ \E o \in ConnectOutcomes, dur \in 0..MaxFnDur :
       /\ terr' = AttemptError(o.res, attempt + 1)
       /\ lastOut' = [res |-> o.res, id |-> attempt + 1]
       /\ tnow' = tnow + dur
       /\ mclients' = Max(mclients, o.at)
       /\ initErr' = IF o.res = "err" THEN [kind |-> "fn", id |-> attempt + 1]
                                      ELSE initErr
  /\ tpc' = "check"
  /\ UNCHANGED <<mqttOthers, tMax, tstart, tret, lastSleep, mpc, mret>>

\* part_019:85-87  the result of Try is dropped; return initErr
MqttReturn ==
  /\ mpc = "body"
  /\ tpc = "done"
  /\ mret' = initErr
  /\ mpc' = "returned"
  /\ UNCHANGED <<mqttOthers, tryVars, initErr, mclients>>

MqttNext ==
  \/ MqttEnter
  \/ mpc = "body" /\ TryStart
  \/ MqttAttempt
  \/ TryReturnNil
  \/ TryReturnErr
  \/ TrySleep
  \/ MqttReturn

\* part_019:85  the window given to Try
MqttSpecInit ==
  /\ PubInit /\ publishNum = 1 /\ ConsInit
  /\ tnow = 0 /\ tstart = 0 /\ attempt = 0 /\ terr = NilErr /\ tpc = "idle"
  /\ tret = NilErr /\ invoked = 0 /\ lastOut = [res |-> "none", id |-> 0]
  /\ lastSleep = 0 /\ tMax = InitWindowSec
  /\ HealthInit /\ notifyClose = <<>>
  /\ LifeBuilt
MqttSpec == MqttSpecInit /\ [][MqttNext]_vars

\* C29: Initialize returns nil exactly when the Try it ran ended with nil,
\* and then every registered client is stored.
C29_ResultFollowsTry ==
  mpc = "returned" =>
     /\ (mret = NilErr) <=> (tret = NilErr)
     /\ mret = NilErr => mclients = NumClients

\* ---- websocket Hub (websocket.go 89-193) ----

HubAlive == hfatal = "none"
SendClosed(c) == closedBy[c] # "none"

\* websocket.go:136-149  Upgrade builds the Connection and offers it on the
\* unbuffered register channel
Upgrade(c) ==
  /\ HubAlive
  /\ cst[c] = "new"
  /\ cst' = [cst EXCEPT ![c] = "registering"]
  /\ UNCHANGED <<hubOthers, hconns, hlevel, closedBy, closes, wpump, drained,
                 hpc, todo, bcastLen, bissued, hfatal>>

\* websocket.go:93-97,149-152  Run receives from register; Upgrade goes on
\* and starts the two pumps
HubRegister(c) ==
  /\ HubAlive
  /\ hpc = "idle"
  /\ cst[c] = "registering"
  /\ hconns' = hconns \cup {c}
  /\ cst' = [cst EXCEPT ![c] = "open"]
  /\ wpump' = [wpump EXCEPT ![c] = "running"]
  /\ UNCHANGED <<hubOthers, hlevel, closedBy, closes, drained, hpc, todo,
                 bcastLen, bissued, hfatal>>

\* websocket.go:124-126  Hub.Broadcast puts a message on the broadcast
\* channel whenever it has room, whatever connections there are; readPump
\* (163-173) does the same with a message it read
BroadcastSend ==
  /\ HubAlive
  /\ bissued < MaxBroadcasts
  /\ bcastLen < BroadcastCap
  /\ bcastLen' = bcastLen + 1
  /\ bissued' = bissued + 1
  /\ UNCHANGED <<hubOthers, hconns, hlevel, closedBy, closes, cst, wpump,
                 drained, hpc, todo, hfatal>>

\* websocket.go:191-193  Connection.Send: a send on a closed channel panics,
\* on a full one it waits
ConnSend(c) ==
  /\ HubAlive
  /\ cst[c] = "open"
  /\ bissued < MaxBroadcasts
  /\ IF SendClosed(c)
       THEN hfatal' = "sender" /\ UNCHANGED <<hlevel, bissued>>
       ELSE /\ hlevel[c] < SendBufCap
            /\ hlevel' = [hlevel EXCEPT ![c] = @ + 1]
            /\ bissued' = bissued + 1
            /\ UNCHANGED hfatal
  /\ UNCHANGED <<hubOthers, hconns, closedBy, closes, cst, wpump, drained,
                 hpc, todo, bcastLen>>

\* websocket.go:158-170  readPump's read fails: its deferred function offers
\* the connection on the unbuffered unregister channel
ReadPumpExit(c) ==
  /\ HubAlive
  /\ cst[c] = "open"
  /\ cst' = [cst EXCEPT ![c] = "unregistering"]
  /\ UNCHANGED <<hubOthers, hconns, hlevel, closedBy, closes, wpump, drained,
                 hpc, todo, bcastLen, bissued, hfatal>>

\* websocket.go:101  if _, ok := h.connections[conn]; ok
KnownAlways(c) == TRUE
Known(c) == c \in hconns

\* close(conn.send): closing a closed channel panics
CloseSend(c, by) ==
  /\ closes' = [closes EXCEPT ![c] = @ + 1]
  /\ IF SendClosed(c)
       THEN hfatal' = "hub" /\ UNCHANGED closedBy
       ELSE closedBy' = [closedBy EXCEPT ![c] = by] /\ UNCHANGED hfatal

\* websocket.go:99-106  Run receives from unregister
HubUnregister(c) ==
  /\ HubAlive
  /\ hpc = "idle"
  /\ cst[c] = "unregistering"
  /\ cst' = [cst EXCEPT ![c] = "gone"]
  /\ IF Known(c)
       THEN /\ hconns' = hconns \ {c}
            /\ CloseSend(c, "unregister")
       ELSE UNCHANGED <<hconns, closedBy, closes, hfatal>>
  /\ UNCHANGED <<hubOthers, hlevel, wpump, drained, hpc, todo, bcastLen,
                 bissued>>

\* websocket.go:108-110  Run receives a message from broadcast and starts
\* ranging over the connections
HubBroadcast ==
  /\ HubAlive
  /\ hpc = "idle"
  /\ bcastLen > 0
  /\ bcastLen' = bcastLen - 1
  /\ todo' = hconns
  /\ hpc' = "bcast"
  /\ UNCHANGED <<hubOthers, hconns, hlevel, closedBy, closes, cst, wpump,
                 drained, bissued, hfatal>>

\* websocket.go:111-116  one iteration of the range: a non-blocking send,
\* or close and delete when the buffer is full; a send on a closed channel
\* panics
HubDeliver(c) ==
  /\ HubAlive
  /\ hpc = "bcast"
  /\ c \in todo
  /\ todo' = todo \ {c}
  /\ IF SendClosed(c)
       THEN /\ hfatal' = "hub"
            /\ UNCHANGED <<hlevel, hconns, closedBy, closes>>
       ELSE IF hlevel[c] < SendBufCap
              THEN /\ hlevel' = [hlevel EXCEPT ![c] = @ + 1]
                   /\ UNCHANGED <<hconns, closedBy, closes, hfatal>>
              ELSE /\ CloseSend(c, "broadcast")
                   /\ hconns' = hconns \ {c}
                   /\ UNCHANGED hlevel
  /\ UNCHANGED <<hubOthers, cst, wpump, drained, hpc, bcastLen, bissued>>

\* websocket.go:117-119  the range is over
HubBroadcastDone ==
  /\ HubAlive
  /\ hpc = "bcast"
  /\ todo = {}
  /\ hpc' = "idle"
  /\ UNCHANGED <<hubOthers, hconns, hlevel, closedBy, closes, cst, wpump,
                 drained, todo, bcastLen, bissued, hfatal>>

\* websocket.go:182-187  writePump takes a message from send and writes it;
\* a failed write ends the pump
WritePumpTake(c) ==
  /\ HubAlive
  /\ wpump[c] = "running"
  /\ hlevel[c] > 0
  /\ drained < MaxDrains
  /\ hlevel' = [hlevel EXCEPT ![c] = @ - 1]
  /\ drained' = drained + 1
  /\ \E ok \in BOOLEAN :
       wpump' = [wpump EXCEPT ![c] = IF ok THEN "running" ELSE "stopped"]
  /\ UNCHANGED <<hubOthers, hconns, closedBy, closes, cst, hpc, todo,
                 bcastLen, bissued, hfatal>>

\* websocket.go:182  the range over send ends when send is closed and empty
WritePumpEnd(c) ==
  /\ HubAlive
  /\ wpump[c] = "running"
  /\ hlevel[c] = 0
  /\ SendClosed(c)
  /\ wpump' = [wpump EXCEPT ![c] = "stopped"]
  /\ UNCHANGED <<hubOthers, hconns, hlevel, closedBy, closes, cst, drained,
                 hpc, todo, bcastLen, bissued, hfatal>>

HubNext ==
  \/ \E c \in Conns : Upgrade(c)
  \/ \E c \in Conns : HubRegister(c)
  \/ BroadcastSend
  \/ \E c \in Conns : ConnSend(c)
  \/ \E c \in Conns : ReadPumpExit(c)
  \/ \E c \in Conns : HubUnregister(c)
  \/ HubBroadcast
  \/ \E c \in Conns : HubDeliver(c)
  \/ HubBroadcastDone
  \/ \E c \in Conns : WritePumpTake(c)
  \/ \E c \in Conns : WritePumpEnd(c)

\* a hub that has been running: a connection is new, or is registered with
\* a writePump that has left its send buffer empty, one short of full, or
\* full
HubRunning ==
  /\ cst \in [Conns -> {"new", "open"}]
  /\ hconns = {c \in Conns : cst[c] = "open"}
  /\ hlevel \in [Conns -> {0, SendBufCap - 1, SendBufCap}]
  /\ \A c \in Conns : cst[c] = "new" => hlevel[c] = 0
  /\ wpump = [c \in Conns |-> IF cst[c] = "open" THEN "running" ELSE "none"]
  /\ closedBy = [c \in Conns |-> "none"]
  /\ closes = [c \in Conns |-> 0]
  /\ drained = 0
  /\ hpc = "idle"
  /\ todo = {}
  /\ bcastLen = 0
  /\ bissued = 0
  /\ hfatal = "none"

HubSpecInit ==
  /\ PubInit /\ publishNum = 1 /\ ConsInit
  /\ TryInit /\ tMax = MaxTryDur
  /\ HealthInit /\ notifyClose = <<>>
  /\ LifeBuiltState
  /\ CtrInit /\ MqttInit /\ LockInit
  /\ HubRunning
HubSpec == HubSpecInit /\ [][HubNext]_vars

\* ---- properties of the Hub ----

\* C30: a send channel is closed at most once and exactly when its
\* connection leaves the connection set, the hub neither sends on nor closes
\* a channel it has closed, and an iteration of the broadcast range is never
\* held up by a send buffer.
C30_HubState ==
  /\ hfatal # "hub"
  /\ \A c \in Conns :
       /\ closes[c] <= 1
       /\ SendClosed(c) <=> closes[c] = 1
       /\ SendClosed(c) => c \notin hconns
       /\ hlevel[c] <= SendBufCap
       /\ (HubAlive /\ hpc = "bcast" /\ c \in todo) => ENABLED HubDeliver(c)
C30_HubClosesOnce ==
  /\ []C30_HubState
  /\ [][\A c \in Conns :
          /\ closes'[c] # closes[c] => (c \in hconns /\ c \notin hconns')
          /\ (c \in hconns /\ c \notin hconns') => closes'[c] = closes[c] + 1]_vars
C30_Witness ==
  \E c \in Conns :
    /\ closedBy[c] = "broadcast" /\ cst[c] = "gone" /\ closes[c] = 1
    /\ hfatal = "none"

\* ---- the three kinds of lock: connRngLock, rngLock and the slot locks ----

\* connRngLock.RLock() passes when no Initialize call holds the lock
ConnRLockPasses == connRngLock = None

\* init.go:84  connRngLock.Lock() at the start of initializeConnection
LockInitTake(i) ==
  /\ ipc[i] = "conn"
  /\ idx <= Len(snapshot)
  /\ connRngLock = None
  /\ connRngLock' = i
  /\ connLockIdx' = idx
  /\ UNCHANGED lockOthers

\* init.go:86-161  rngLock.Lock() and the rest of initializeConnection, with
\* the deferred rngLock.Unlock()
LockInitBody(i) ==
  /\ connRngLock = i
  /\ connLockIdx = idx
  /\ InitConnection(i)

\* init.go:85  the deferred connRngLock.Unlock()
LockInitRelease(i) ==
  /\ connRngLock = i
  /\ connLockIdx # idx \/ ipc[i] = "returned"
  /\ connRngLock' = None
  /\ UNCHANGED <<lockOthers, connLockIdx>>

\* part_008:148-157  GetConnection returns a Connection, whose Publish is
\* then called
LockGetConn(p) ==
  /\ pc[p] = "idle"
  /\ ret[p] # "conn"
  /\ calls[p] < MaxCalls
  /\ Len(selHist) + Cardinality({q \in Pubs : pc[q] = "ring" \/ ret[q] = "conn"})
       < MaxLifeCalls
  /\ ConnRLockPasses
  /\ connFilled[Target] >= 0
  /\ ret' = [ret EXCEPT ![p] = "conn"]
  /\ UNCHANGED <<publishNum, rngCur, rngLock, slotLock, wg, rtrn, rtrnClosed,
                 closed, chnOpen, published, pending, listener, pc, r, cl,
                 myTag, calls, conf, selHist, consumed, consVars, extVars>>

\* part_008:160-161  Publish on that Connection takes rngLock
LockPubLockRing(p) ==
  /\ ret[p] = "conn"
  /\ PubLockRing(p)

\* part_008:162-163  r := rng[c.name]; cl := r.Value.(*chnlLock) under
\* rngLock. On a missing or unfilled slot ring it panics: no deferred call
\* unlocks rngLock, so it stays locked when a caller recovers the panic (the
\* Recovery middleware of the examples, net/http); else the process ends.
LockPubReadRing(p) ==
  IF RingReadPanics
    THEN /\ pc[p] = "ring"
         /\ pc' = [pc EXCEPT ![p] = "idle"]
         /\ ret' = [ret EXCEPT ![p] = "panic"]
         /\ \E recovered \in BOOLEAN : crashed' = ~recovered
         /\ UNCHANGED <<publishNum, rngCur, rngLock, slotLock, wg, rtrn,
                        rtrnClosed, closed, chnOpen, published, pending,
                        listener, r, cl, myTag, calls, conf, selHist,
                        consumed, lifeOthers, registered, onceState,
                        snapshot, idx, ipc, connNum, connFilled, connCur,
                        rngFilled, killSet, killCancelled, healthReg,
                        initFailed, consAcquired, dialed, bodyRuns,
                        connTries, closeCalls>>
    ELSE PubReadRing(p)

\* part_008:174-195  the declaration reads the connection ring under
\* connRngLock.RLock()
LockPubDeclare(p) ==
  /\ ConnRLockPasses
  /\ PubDeclare(p)

\* part_008:231-233  Consume reads the connection ring under
\* connRngLock.RLock()
LockConsumeAcquire ==
  /\ ConnRLockPasses
  /\ LifeConsumeAcquire

\* the Publish callers of this part: one to hold rngLock while the other
\* holds a slot lock
LockPubs == {p \in Pubs : p <= 2}

\* Initialize builds the pools of Target and goes on with the next broker,
\* or fails part-way, while Publish and Consume calls are made on Target as
\* soon as GetConnection finds it; the channels stay open and the broker
\* confirms what it was sent. The deferred unlock of init.go:86-89 runs
\* before Initialize goes on (init.go:60-67).
LockNext ==
  \/ \E i \in InitCallers : Alive /\ LockInitTake(i)
  \/ \E i \in InitCallers : Alive /\ LockInitBody(i)
  \/ \E i \in InitCallers : Alive /\ LockInitRelease(i)
  \/ \E i \in InitCallers : Alive /\ connRngLock # i /\ InitKill(i)
  \/ \E i \in InitCallers : Alive /\ connRngLock # i /\ InitFinish(i)
  \/ \E p \in LockPubs : Alive /\ LockGetConn(p)
  \/ \E p \in LockPubs : Alive /\ LockPubLockRing(p)
  \/ \E p \in LockPubs : Alive /\ LockPubReadRing(p)
  \/ \E p \in LockPubs : Alive /\ PubAdvanceRing(p)
  \/ \E p \in LockPubs : Alive /\ PubLockSlot(p)
  \/ \E p \in LockPubs : Alive /\ LockPubDeclare(p)
  \/ \E p \in LockPubs : Alive /\ PubAdd(p)
  \/ \E p \in LockPubs : Alive /\ PubSend(p)
  \/ \E p \in LockPubs : Alive /\ PubSendErr(p)
  \/ \E p \in LockPubs : Alive /\ PubWaitReturn(p)
  \/ Alive /\ LockConsumeAcquire
  \/ \E s \in Slots : Alive /\ ListenerConsume(s)
  \/ \E s \in Slots : Alive /\ BrokerConfirm(s)

\* Target and the broker after it are registered, and Initialize has
\* entered initializeConnection for Target and assigned kill (init.go:71)
LockLifeInit ==
  /\ registered = <<Target, Target + 1>>
  /\ onceState = "running"
  /\ snapshot = registered
  /\ idx = 1
  /\ ipc = [i \in InitCallers |-> IF i = 1 THEN "conn" ELSE "idle"]
  /\ connNum = 1
  /\ connFilled = [b \in Brokers |-> -1]
  /\ connCur = [b \in Brokers |-> 0]
  /\ rngFilled = [b \in Brokers |-> -1]
  /\ killSet = TRUE
  /\ killCancelled = FALSE
  /\ healthReg = FALSE
  /\ initFailed = FALSE
  /\ crashed = FALSE
  /\ consAcquired = FALSE
  /\ dialed = 0
  /\ bodyRuns = 1
  /\ connTries = 0
  /\ closeCalls = 0
LockSpecInit ==
  /\ LifePubInit /\ publishNum = 1 /\ ConsInit
  /\ TryInit /\ tMax = MaxTryDur
  /\ HealthInit /\ notifyClose = <<>>
  /\ LockLifeInit
  /\ MoreIdle
LockSpec == LockSpecInit /\ [][LockNext]_vars
\* some call that can take a step does
LockFairSpec == LockSpec /\ WF_vars(LockNext)

\* C28: whoever holds rngLock holds no slot lock and is not waiting for
\* one; only an Initialize call holds connRngLock, and it holds no slot
\* lock; and every call waiting for a lock gets it: Initialize its rngLock,
\* Publish its rngLock, its slot lock and the read lock of its declaration.
C28_LockOrder ==
  /\ \A p \in Pubs :
       rngLock = p => (pc[p] # "slotlock" /\ \A s \in Slots : slotLock[s] # p)
  /\ \A s \in Slots : slotLock[s] # None => HoldsSlot(slotLock[s])
  /\ connRngLock # None => ipc[connRngLock] \in {"conn", "body", "returned"}
C28_NoLockDeadlock ==
  /\ []C28_LockOrder
  /\ \A i \in InitCallers :
       (connRngLock = i /\ connLockIdx = idx /\ ipc[i] = "conn")
          ~> (connRngLock # i \/ connLockIdx # idx \/ ipc[i] # "conn"
              \/ crashed)
  /\ \A p \in Pubs :
       /\ (pc[p] = "idle" /\ ret[p] = "conn")
            ~> (pc[p] # "idle" \/ ret[p] # "conn" \/ crashed)
       /\ (pc[p] = "slotlock") ~> (pc[p] # "slotlock" \/ crashed)
       /\ (pc[p] = "declare") ~> (pc[p] # "declare" \/ crashed)
       /\ (pc[p] = "wait") ~> (pc[p] # "wait" \/ crashed)

\* ---- PublishJSON and Consume on one queue of a working broker ----

\* The callers of PublishJSON; the payload of caller p is {"i": p}
\* (part_015 scenario), which json.Marshal always encodes (part_008:221-224),
\* and the message it becomes at the broker is message p.
RoundPubs == {p \in Pubs : p \in Msgs}

\* part_008:199-209  the send names the exchange and the queue as routing
\* key; the broker puts a routed message at the end of that queue
RoutedNowhere(q, m) == q
Routed(q, m) == Append(q, m)

\* part_008:220-226  PublishJSON: Marshal, then Publish; one call a caller
RoundPublishJSON(p) ==
  /\ p \in RoundPubs
  /\ calls[p] = 0
  /\ PubLockRing(p)

\* part_008:174-195  the transient channel opens and QueueDeclare succeeds
RoundDeclare(p) ==
  /\ PubDeclare(p)
  /\ pc'[p] = "add"

\* part_008:199-209  cl.chn.Publish(...) on the open pool channel: the send
\* gets the next delivery tag and the message reaches the queue
RoundSend(p) ==
  /\ pc[p] = "send"
  /\ chnOpen[cl[p]]
  /\ published' = [published EXCEPT ![cl[p]] = @ + 1]
  /\ myTag' = [myTag EXCEPT ![p] = published[cl[p]] + 1]
  /\ pending' = [pending EXCEPT ![cl[p]] = Append(@, published[cl[p]] + 1)]
  /\ pc' = [pc EXCEPT ![p] = "wait"]
  /\ ready' = Routed(ready, p)
  /\ UNCHANGED <<publishNum, rngCur, rngLock, slotLock, wg, rtrn, rtrnClosed,
                 closed, chnOpen, listener, r, cl, calls, ret, conf, selHist,
                 consumed, extVars, ctxDone, cpc, cret, setupOK, subs, msgs,
                 msgsClosed, unacked, cur, hres, fails, recv, res, sigs>>

\* init.go:142-147  the working broker confirms a send positively
RoundConfirm(s) ==
  /\ BrokerConfirm(s)
  /\ rtrn'[s][Len(rtrn'[s])].Ack

\* part_008:235-265  channel, QueueDeclare and ch.Consume succeed
RoundOpenChannel == ConsOpenChannel /\ cpc' = "declare"
RoundQueueDeclare == ConsQueueDeclare /\ cpc' = "subscribe"
RoundSubscribe == ConsSubscribe /\ cpc' = "select"

\* part_008:276  the handler always succeeds
RoundHandle == ConsHandle /\ hres' = "ok"

RoundNext ==
  \/ \E p \in Pubs : RoundPublishJSON(p)
  \/ \E p \in Pubs : PubReadRing(p)
  \/ \E p \in Pubs : PubAdvanceRing(p)
  \/ \E p \in Pubs : PubLockSlot(p)
  \/ \E p \in Pubs : RoundDeclare(p)
  \/ \E p \in Pubs : PubAdd(p)
  \/ \E p \in Pubs : RoundSend(p)
  \/ \E p \in Pubs : PubWaitReturn(p)
  \/ \E s \in Slots : ListenerConsume(s)
  \/ \E s \in Slots : RoundConfirm(s)
  \/ RoundOpenChannel
  \/ RoundQueueDeclare
  \/ RoundSubscribe
  \/ ConsRecvMsg
  \/ RoundHandle
  \/ ConsSignal
  \/ BrokerDeliver

\* part_008:229-233  Consume has not been called and the queue is empty
RoundConsInit ==
  /\ ctxDone = FALSE
  /\ cpc = "idle"
  /\ cret = "none"
  /\ setupOK = FALSE
  /\ subs = 0
  /\ ready = <<>>
  /\ msgs = <<>>
  /\ msgsClosed = FALSE
  /\ unacked = {}
  /\ cur = None
  /\ hres = "none"
  /\ fails = 0
  /\ recv = [m \in Msgs |-> 0]
  /\ res = [m \in Msgs |-> <<>>]
  /\ sigs = [m \in Msgs |-> <<>>]

\* init.go:57-161  one Initialize call built the pools of Target with two
\* connections; the connection ring was advanced once after it was filled
RoundLifeInit ==
  /\ registered = <<Target>>
  /\ onceState = "done"
  /\ snapshot = <<Target>>
  /\ idx = 2
  /\ ipc = [i \in InitCallers |-> IF i = 1 THEN "returned" ELSE "idle"]
  /\ connNum = 2
  /\ connFilled = [b \in Brokers |-> IF b = Target THEN connNum ELSE -1]
  /\ connCur = [b \in Brokers |-> IF b = Target THEN (1 + publishNum) % connNum
                                          ELSE 0]
  /\ rngFilled = [b \in Brokers |-> IF b = Target THEN publishNum ELSE -1]
  /\ killSet = TRUE
  /\ killCancelled = FALSE
  /\ healthReg = TRUE
  /\ initFailed = FALSE
  /\ crashed = FALSE
  /\ consAcquired = FALSE
  /\ dialed = connNum
  /\ bodyRuns = 1
  /\ connTries = 1
  /\ closeCalls = 0

RoundInit ==
  /\ PubInit /\ publishNum = 1
  /\ RoundConsInit
  /\ TryInit /\ tMax = MaxTryDur
  /\ HealthInit /\ notifyClose = <<>>
  /\ RoundLifeInit
  /\ MoreIdle

RoundSpec == RoundInit /\ [][RoundNext]_vars

\* every goroutine that can take a step is scheduled, and the broker keeps
\* confirming and delivering
RoundFairSpec == RoundSpec /\ WF_vars(RoundNext)

\* C22: with connection-pool size 2 and channel-pool size 1, concurrent
\* PublishJSON calls with distinct payloads and a parallel Consume whose
\* handler always succeeds: no PublishJSON call ever returns an error, no
\* message is delivered or signalled twice or signalled other than by an ack,
\* and eventually every call has returned nil and every message has been
\* received once and acknowledged once.
C22_NoErrorNoDuplicate ==
  /\ \A p \in RoundPubs : ret[p] \in {"none", "nil"}
  /\ \A m \in Msgs : recv[m] <= 1 /\ sigs[m] \in {<<>>, <<"ack">>}
  /\ \A m \in Msgs : recv[m] > 0 => (m \in RoundPubs /\ myTag[m] > 0)
C22_AllAcked ==
  \A p \in RoundPubs :
    /\ ret[p] = "nil"
    /\ recv[p] = 1
    /\ sigs[p] = <<"ack">>
    /\ res[p] = <<"ok">>
C22_EachAckedOnce == []C22_NoErrorNoDuplicate /\ <>[]C22_AllAcked
C22_Witness ==
  /\ connNum = 2 /\ publishNum = 1
  /\ Cardinality(RoundPubs) >= 2
  /\ C22_AllAcked
  /\ \E p, q \in RoundPubs : p < q /\ myTag[p] > myTag[q]

====
